---- MODULE Spec2Model ----
(***************************************************************************)
(* Model of the narrative-simulation core of "A Day at the Office":        *)
(*   - TaskManager          (src/src/world/tasks.py)                       *)
(*   - GameClock            (src/src/core/timer.py)                        *)
(*   - TimelineController   (src/src/core/timeline.py)                     *)
(*   - Elevator             (src/src/world/elevator.py)                    *)
(*   - EventBus             (src/src/core/event_bus.py)                    *)
(*   - TriggerManager       (src/src/world/triggers.py)                    *)
(* Each component has its own next-state relation and specification; the   *)
(* variables of the other components are left unchanged by it.             *)
(***************************************************************************)
EXTENDS Integers, Sequences, FiniteSets, TLC

VARIABLES
    \* ---- TaskManager ----
    tasks,                 \* dict id -> Task
    task_order,            \* insertion order of the keys of tasks
    task_status,           \* dict id -> TaskStatus
    completed_tasks,
    available_tasks,
    discovered_tasks,
    offered_tasks,
    silent_completions,
    total_points,
    main_tasks_completed,
    side_tasks_completed,
    t_op,                  \* the last TaskManager call: [name, arg]
    t_ret,                 \* and what it returned
    \* ---- GameClock ----
    speed,                 \* virtual seconds per real second
    start_time,            \* datetimes, in half seconds since midnight
    end_time,
    current_time,
    is_running,
    total_real_seconds,    \* in half seconds
    last_minute_emitted,   \* _last_minute_emitted
    bus_log,               \* the events the last GameClock call emitted
    c_op,                  \* the last GameClock call: [name, arg]
    minutes_published,     \* the watched minutes this clock has published
    \* ---- TimelineController ----
    tl_events,             \* self.events: list of TimelineEvent
    tl_subscribed,         \* self._subscribed
    tl_stack,              \* the running update / _on_time_reached calls,
                           \* outermost first, each at its place in the loop
    tl_emit_count,         \* per entry: publications of its emit topic
    tl_ns_count,           \* per entry: publications of TIMELINE:<emit>
    \* ---- Elevator ----
    current_floor,
    target_floor,
    el_state,              \* self.state
    animation_time,        \* in seconds
    call_queue,
    total_uses,
    floors_visited,
    el_callbacks,          \* the callbacks the last Elevator call invoked
    e_op,                  \* the last Elevator call: [name, arg]
    e_ret,                 \* and what it returned
    el_quiet,              \* the host only calls update() from now on
    el_timed,              \* a stopwatch runs since the last call()
    el_elapsed,            \* stopwatch: the dt of the updates since then
    el_arrived_at,         \* stopwatch: el_elapsed when the cabin arrived
    \* ---- EventBus ----
    eb_subscribers,        \* self._subscribers: dict topic -> list of handlers
    eb_stack,              \* the running emit calls, outermost first, each at
                           \* its place in the loop over the handlers
    eb_ret,                \* the last emit call that returned, if any
    \* ---- TriggerManager ----
    tr_triggers,           \* self.triggers: dict id -> Trigger
    tr_order,              \* insertion order of the keys of self.triggers
    tr_floor_triggers,     \* self.floor_triggers: dict floor -> list of ids
    tr_calls,              \* per trigger: the invocations of its callback
    tr_invoked,            \* the callbacks the last manager call invoked
    tr_dwell,              \* per STAY_IN_ZONE trigger: the dt of the updates
                           \* in a row that found the player in its zone
    tr_op,                 \* the last TriggerManager call: name, dt, pos, floor
    tr_ret                 \* and the list of ids it returned

taskVars == <<tasks, task_order, task_status, completed_tasks, available_tasks,
              discovered_tasks, offered_tasks, silent_completions, total_points,
              main_tasks_completed, side_tasks_completed, t_op, t_ret>>

clockVars == <<speed, start_time, end_time, current_time, is_running,
               total_real_seconds, last_minute_emitted, bus_log, c_op,
               minutes_published>>

timelineVars == <<tl_events, tl_subscribed, tl_stack, tl_emit_count, tl_ns_count>>

elevatorVars == <<current_floor, target_floor, el_state, animation_time, call_queue,
                  total_uses, floors_visited, el_callbacks, e_op, e_ret,
                  el_quiet, el_timed, el_elapsed, el_arrived_at>>

eventBusVars == <<eb_subscribers, eb_stack, eb_ret>>

triggerVars == <<tr_triggers, tr_order, tr_floor_triggers, tr_calls, tr_invoked,
                 tr_dwell, tr_op, tr_ret>>

vars == <<taskVars, clockVars, timelineVars, elevatorVars, eventBusVars,
          triggerVars>>

nonTaskVars == <<clockVars, timelineVars, elevatorVars, eventBusVars, triggerVars>>
nonClockVars == <<taskVars, timelineVars, elevatorVars, eventBusVars, triggerVars>>
nonTimelineVars == <<taskVars, clockVars, elevatorVars, eventBusVars, triggerVars>>
nonElevatorVars == <<taskVars, clockVars, timelineVars, eventBusVars, triggerVars>>
nonEventBusVars == <<taskVars, clockVars, timelineVars, elevatorVars, triggerVars>>
nonTriggerVars == <<taskVars, clockVars, timelineVars, elevatorVars, eventBusVars>>

(***************************************************************************)
(*                              TaskManager                                *)
(***************************************************************************)

\* TaskStatus values (IN_PROGRESS is declared but never assigned)
LOCKED == "locked"
AVAILABLE == "available"
IN_PROGRESS == "in_progress"
COMPLETED == "completed"

NoneVal == "None"

\* A Task, restricted to the fields the manager's logic reads.
Task(id, required, deps, tags, inter, allow, points) ==
    [id |-> id, required |-> required, dependencies |-> deps, tags |-> tags,
     interactable_id |-> inter, allow_unassigned_completion |-> allow,
     reward_points |-> points]

\* The task definitions the environment may register. Two definitions of
\* the same id model re-adding an id with a changed definition.
TaskCatalog ==
    { Task("M1", TRUE,  {},           {},       "printer_97", TRUE,  10),
      Task("M2", TRUE,  {"M1"},       {},       NoneVal,      TRUE,  20),
      Task("M2", TRUE,  {"M1", "S1"}, {},       "coffee",     TRUE,  20),
      Task("S1", FALSE, {},           {"auto"}, "printer_97", TRUE,  5),
      Task("S1", FALSE, {"M1"},       {},       "coffee",     FALSE, 5),
      Task("S1", FALSE, {"M1"},       {"auto"}, NoneVal,      TRUE,  5),
      Task("S1", FALSE, {},           {},       "plant",      TRUE,  5) }

TaskIds == {d.id : d \in TaskCatalog}

\* ids passed to the manager's operations: the known ones and one that is
\* never registered
CallIds == TaskIds \cup {"ghost"}

\* ids passed to offer_task and discover_task: the side task and the
\* unregistered id
OfferIds == {"S1", "ghost"}

Interactables == {"printer_97", "coffee", "plant"}

_are_dependencies_met_any(task, completed) ==
    \/ task.dependencies = {}
    \/ \E dep_id \in task.dependencies : dep_id \in completed

_are_dependencies_met(task, completed) ==
    \A dep_id \in task.dependencies : dep_id \in completed

\* _update_available_tasks: the statuses after the re-scan. The loop reads
\* only completed_tasks and offered_tasks, which it does not change, so the
\* iteration order does not matter.
ShouldBeAvailable_required(ts, task_id, completed, offered) ==
    /\ _are_dependencies_met(ts[task_id], completed)
    /\ ts[task_id].required

ShouldBeAvailable(ts, task_id, completed, offered) ==
    /\ _are_dependencies_met(ts[task_id], completed)
    /\ (ts[task_id].required \/ task_id \in offered)

UpdatedStatus_nopromote(ts, st, completed, offered) ==
    [task_id \in DOMAIN st |->
        IF task_id \notin DOMAIN ts THEN st[task_id]
        ELSE IF ~ShouldBeAvailable(ts, task_id, completed, offered)
                 /\ st[task_id] = AVAILABLE
             THEN LOCKED
             ELSE st[task_id]]

UpdatedStatus(ts, st, completed, offered) ==
    [task_id \in DOMAIN st |->
        IF task_id \notin DOMAIN ts THEN st[task_id]
        ELSE IF ShouldBeAvailable(ts, task_id, completed, offered)
                 /\ st[task_id] = LOCKED
             THEN AVAILABLE
             ELSE IF ~ShouldBeAvailable(ts, task_id, completed, offered)
                      /\ st[task_id] = AVAILABLE
                  THEN LOCKED
                  ELSE st[task_id]]

\* _update_available_tasks, leaving the demoted ids in available_tasks
UpdatedAvailable_keep(ts, st, av, completed, offered) ==
    av \cup {i \in DOMAIN ts : ShouldBeAvailable(ts, i, completed, offered)
                                /\ st[i] = LOCKED}

\* _update_available_tasks: the available_tasks set after the re-scan
\* (promoted ids added, demoted ids discarded, the rest untouched).
UpdatedAvailable(ts, st, av, completed, offered) ==
    LET promoted == {i \in DOMAIN ts : ShouldBeAvailable(ts, i, completed, offered)
                                       /\ st[i] = LOCKED}
        demoted  == {i \in DOMAIN ts : ~ShouldBeAvailable(ts, i, completed, offered)
                                       /\ st[i] = AVAILABLE}
    IN (av \cup promoted) \ demoted

TaskInit ==
    /\ tasks = <<>>
    /\ task_order = <<>>
    /\ task_status = <<>>
    /\ completed_tasks = {}
    /\ available_tasks = {}
    /\ discovered_tasks = {}
    /\ offered_tasks = {}
    /\ silent_completions = {}
    /\ total_points = 0
    /\ main_tasks_completed = 0
    /\ side_tasks_completed = 0
    /\ t_op = [name |-> "__init__", arg |-> NoneVal]
    /\ t_ret = NoneVal

\* add_task(task)
add_task_unlocked(task) ==
    LET avail == _are_dependencies_met(task, completed_tasks)
    IN /\ tasks' = (task.id :> task) @@ tasks
       /\ task_order' = IF task.id \in DOMAIN tasks THEN task_order
                        ELSE Append(task_order, task.id)
       /\ task_status' = (task.id :> (IF avail THEN AVAILABLE ELSE LOCKED)) @@ task_status
       /\ available_tasks' = IF avail THEN available_tasks \cup {task.id}
                             ELSE available_tasks
       /\ t_op' = [name |-> "add_task", arg |-> task.id]
       /\ t_ret' = NoneVal
       /\ UNCHANGED <<completed_tasks, discovered_tasks, offered_tasks,
                      silent_completions, total_points, main_tasks_completed,
                      side_tasks_completed>>

add_task(task) ==
    LET auto == "auto" \in task.tags
        avail == /\ _are_dependencies_met(task, completed_tasks)
                 /\ (task.required \/ task.id \in offered_tasks \/ auto)
    IN /\ tasks' = (task.id :> task) @@ tasks
       /\ task_order' = IF task.id \in DOMAIN tasks THEN task_order
                        ELSE Append(task_order, task.id)
       /\ task_status' = (task.id :> (IF avail THEN AVAILABLE ELSE LOCKED)) @@ task_status
       /\ available_tasks' = IF avail THEN available_tasks \cup {task.id}
                             ELSE available_tasks
       /\ t_op' = [name |-> "add_task", arg |-> task.id]
       /\ t_ret' = NoneVal
       /\ UNCHANGED <<completed_tasks, discovered_tasks, offered_tasks,
                      silent_completions, total_points, main_tasks_completed,
                      side_tasks_completed>>

\* The state change shared by complete_task and the silent completion:
\* mark completed, reward, count, re-scan.
MarkCompleted_uncounted(task_id) ==
    LET task == tasks[task_id]
        completed == completed_tasks \cup {task_id}
        st == [task_status EXCEPT ![task_id] = COMPLETED]
        av == available_tasks \ {task_id}
    IN /\ completed_tasks' = completed
       /\ task_status' = UpdatedStatus(tasks, st, completed, offered_tasks)
       /\ available_tasks' = UpdatedAvailable(tasks, st, av, completed, offered_tasks)
       /\ total_points' = total_points + task.reward_points
       /\ main_tasks_completed' = main_tasks_completed + (IF task.required THEN 1 ELSE 0)
       /\ side_tasks_completed' = side_tasks_completed

MarkCompleted(task_id) ==
    LET task == tasks[task_id]
        completed == completed_tasks \cup {task_id}
        st == [task_status EXCEPT ![task_id] = COMPLETED]
        av == available_tasks \ {task_id}
    IN /\ completed_tasks' = completed
       /\ task_status' = UpdatedStatus(tasks, st, completed, offered_tasks)
       /\ available_tasks' = UpdatedAvailable(tasks, st, av, completed, offered_tasks)
       /\ total_points' = total_points + task.reward_points
       /\ main_tasks_completed' = main_tasks_completed + (IF task.required THEN 1 ELSE 0)
       /\ side_tasks_completed' = side_tasks_completed + (IF task.required THEN 0 ELSE 1)

\* complete_task(task_id), refusing a task that is not AVAILABLE
complete_task_available(task_id) ==
    /\ t_op' = [name |-> "complete_task", arg |-> task_id]
    /\ IF \/ task_id \notin DOMAIN tasks
          \/ task_id \in completed_tasks
          \/ task_status[task_id] # AVAILABLE
       THEN /\ t_ret' = FALSE
            /\ UNCHANGED <<tasks, task_order, task_status, completed_tasks,
                           available_tasks, discovered_tasks, offered_tasks,
                           silent_completions, total_points,
                           main_tasks_completed, side_tasks_completed>>
       ELSE /\ MarkCompleted(task_id)
            /\ t_ret' = TRUE
            /\ UNCHANGED <<tasks, task_order, discovered_tasks, offered_tasks,
                           silent_completions>>

\* complete_task(task_id)
complete_task_again(task_id) ==
    /\ t_op' = [name |-> "complete_task", arg |-> task_id]
    /\ IF task_id \notin DOMAIN tasks
       THEN /\ t_ret' = FALSE
            /\ UNCHANGED <<tasks, task_order, task_status, completed_tasks,
                           available_tasks, discovered_tasks, offered_tasks,
                           silent_completions, total_points,
                           main_tasks_completed, side_tasks_completed>>
       ELSE /\ MarkCompleted(task_id)
            /\ t_ret' = (task_id \notin completed_tasks)
            /\ UNCHANGED <<tasks, task_order, discovered_tasks, offered_tasks,
                           silent_completions>>

complete_task(task_id) ==
    /\ t_op' = [name |-> "complete_task", arg |-> task_id]
    /\ IF task_id \notin DOMAIN tasks \/ task_id \in completed_tasks
       THEN /\ t_ret' = FALSE
            /\ UNCHANGED <<tasks, task_order, task_status, completed_tasks,
                           available_tasks, discovered_tasks, offered_tasks,
                           silent_completions, total_points,
                           main_tasks_completed, side_tasks_completed>>
       ELSE /\ MarkCompleted(task_id)
            /\ t_ret' = TRUE
            /\ UNCHANGED <<tasks, task_order, discovered_tasks, offered_tasks,
                           silent_completions>>

\* The first task, in dict order, whose interactable_id equals the argument
\* (0 when there is none): the loop returns at that task whatever it does.
FirstMatch(interactable_or_obj_id) ==
    LET hits == {i \in 1..Len(task_order) :
                    /\ tasks[task_order[i]].interactable_id # NoneVal
                    /\ tasks[task_order[i]].interactable_id = interactable_or_obj_id}
    IN IF hits = {} THEN 0
       ELSE CHOOSE i \in hits : \A j \in hits : i <= j

\* complete_task_unassigned_if_match(interactable_or_obj_id)
complete_task_unassigned_if_match(x) ==
    LET i == FirstMatch(x)
    IN /\ t_op' = [name |-> "complete_task_unassigned_if_match", arg |-> x]
       /\ t_ret' = NoneVal
       /\ IF \/ i = 0
             \/ task_order[i] \in completed_tasks
             \/ ~tasks[task_order[i]].allow_unassigned_completion
          THEN UNCHANGED <<tasks, task_order, task_status, completed_tasks,
                           available_tasks, discovered_tasks, offered_tasks,
                           silent_completions, total_points,
                           main_tasks_completed, side_tasks_completed>>
          ELSE /\ MarkCompleted(task_order[i])
               /\ silent_completions' = silent_completions \cup {task_order[i]}
               /\ UNCHANGED <<tasks, task_order, discovered_tasks, offered_tasks>>

\* offer_task(task_id): the second definition in the class, which replaces
\* the first
offer_task(task_id) ==
    /\ t_op' = [name |-> "offer_task", arg |-> task_id]
    /\ IF task_id \notin DOMAIN tasks
       THEN /\ t_ret' = FALSE
            /\ UNCHANGED <<tasks, task_order, task_status, completed_tasks,
                           available_tasks, discovered_tasks, offered_tasks,
                           silent_completions, total_points,
                           main_tasks_completed, side_tasks_completed>>
       ELSE LET offered == offered_tasks \cup {task_id}
            IN /\ offered_tasks' = offered
               /\ task_status' = UpdatedStatus(tasks, task_status, completed_tasks, offered)
               /\ available_tasks' = UpdatedAvailable(tasks, task_status, available_tasks,
                                                      completed_tasks, offered)
               /\ t_ret' = TRUE
               /\ UNCHANGED <<tasks, task_order, completed_tasks, discovered_tasks,
                              silent_completions, total_points,
                              main_tasks_completed, side_tasks_completed>>

\* discover_task(task_id)
discover_task(task_id) ==
    /\ t_op' = [name |-> "discover_task", arg |-> task_id]
    /\ IF task_id \notin DOMAIN tasks \/ task_id \in discovered_tasks
       THEN /\ t_ret' = FALSE
            /\ UNCHANGED discovered_tasks
       ELSE /\ discovered_tasks' = discovered_tasks \cup {task_id}
            /\ t_ret' = TRUE
    /\ UNCHANGED <<tasks, task_order, task_status, completed_tasks,
                   available_tasks, offered_tasks, silent_completions,
                   total_points, main_tasks_completed, side_tasks_completed>>

\* reset(): the sets are cleared first, so the status recomputation sees an
\* empty completed_tasks and an empty offered_tasks
task_reset ==
    LET avail(i) == /\ _are_dependencies_met(tasks[i], {})
                    /\ (tasks[i].required \/ i \in {})
    IN /\ completed_tasks' = {}
       /\ discovered_tasks' = {}
       /\ offered_tasks' = {}
       /\ silent_completions' = {}
       /\ total_points' = 0
       /\ main_tasks_completed' = 0
       /\ side_tasks_completed' = 0
       /\ task_status' = [i \in DOMAIN task_status |->
                             IF i \in DOMAIN tasks
                             THEN (IF avail(i) THEN AVAILABLE ELSE LOCKED)
                             ELSE task_status[i]]
       /\ available_tasks' = {i \in DOMAIN tasks : avail(i)}
       /\ t_op' = [name |-> "reset", arg |-> NoneVal]
       /\ t_ret' = NoneVal
       /\ UNCHANGED <<tasks, task_order>>

\* get_task_status(task_id)
get_task_status(task_id) ==
    IF task_id \in DOMAIN task_status THEN task_status[task_id] ELSE NoneVal

AddTask ==
    /\ \E task \in TaskCatalog : add_task(task)
    /\ UNCHANGED nonTaskVars
\* add_task with an id that is not registered yet
AddTaskOnce ==
    /\ \E task \in TaskCatalog : task.id \notin DOMAIN tasks /\ add_task(task)
    /\ UNCHANGED nonTaskVars
CompleteTask ==
    /\ \E task_id \in CallIds : complete_task(task_id)
    /\ UNCHANGED nonTaskVars
CompleteUnassigned ==
    /\ \E x \in Interactables : complete_task_unassigned_if_match(x)
    /\ UNCHANGED nonTaskVars
OfferTask ==
    /\ \E task_id \in OfferIds : offer_task(task_id)
    /\ UNCHANGED nonTaskVars
DiscoverTask ==
    /\ \E task_id \in OfferIds : discover_task(task_id)
    /\ UNCHANGED nonTaskVars
ResetTasks ==
    /\ task_reset
    /\ UNCHANGED nonTaskVars



(***************************************************************************)
(*                               GameClock                                 *)
(***************************************************************************)

\* settings.py
START_TIME == <<"0", "8", ":", "3", "0">>
END_TIME == <<"0", "8", ":", "4", "8">>
GAME_SECONDS_PER_REAL_SECOND == 5

\* Time strings are sequences of characters; NoTime stands for None (no
\* minute emitted yet, a payload without "time").
NoTime == <<>>

DigitChars == <<"0", "1", "2", "3", "4", "5", "6", "7", "8", "9">>

DigitValue(c) == (CHOOSE i \in 1..10 : DigitChars[i] = c) - 1

\* int(): the decimal value of a sequence of digit characters
RECURSIVE ToInt(_)
ToInt(cs) ==
    IF cs = <<>> THEN 0
    ELSE 10 * ToInt(SubSeq(cs, 1, Len(cs) - 1)) + DigitValue(cs[Len(cs)])

\* One half second is the unit of every duration and datetime of the clock.
HalfSecondsPerSecond == 2
SecondsPerMinute == 60
MinutesPerHour == 60

\* _parse_time: "HH:MM" split at ':' -> datetime(2001, 9, 11, hour, minute, 0)
_parse_time(time_str) ==
    LET colon  == CHOOSE i \in 1..Len(time_str) : time_str[i] = ":"
        hour   == ToInt(SubSeq(time_str, 1, colon - 1))
        minute == ToInt(SubSeq(time_str, colon + 1, Len(time_str)))
    IN (hour * MinutesPerHour + minute) * SecondsPerMinute * HalfSecondsPerSecond

\* strftime("%H:%M"): the minute a datetime lies in, seconds dropped
strftime_HM(t) ==
    LET minutes == t \div (SecondsPerMinute * HalfSecondsPerSecond)
        hour    == minutes \div MinutesPerHour
        minute  == minutes % MinutesPerHour
    IN <<DigitChars[(hour \div 10) + 1], DigitChars[(hour % 10) + 1], ":",
         DigitChars[(minute \div 10) + 1], DigitChars[(minute % 10) + 1]>>

\* The speeds a clock is built with: the settings value and the one of the
\* tests (one real second = one virtual minute)
Speeds == {GAME_SECONDS_PER_REAL_SECOND, 60}

\* The dt arguments of tick, in half seconds: 0, 0.5 s, 1 s, 3.5 s and 18 s
DtChoices == {0, 1, 2, 7, 36}

\* game_seconds = dt * self.speed (dt in half seconds gives half seconds)
GameSeconds_sum(dt, spd) == dt + spd

GameSeconds(dt, spd) == dt * spd

\* "if self.current_time > self.end_time: self.current_time = self.end_time"
ClampedTime_noclamp(t, endt) == t

ClampedTime(t, endt) == IF t > endt THEN endt ELSE t

\* is_deadline()
is_deadline == current_time >= end_time

\* get_time_str()
get_time_str == strftime_HM(current_time)

\* An event: its topic (a name and, for "TIME_REACHED:<HH:MM>", the minute
\* appended to it) and its payload {"time": minute_str}
Event(name, suffix, minute_str) ==
    [topic |-> [name |-> name, suffix |-> suffix], payload |-> [time |-> minute_str]]

\* The minutes whose publications are recorded in minutes_published
WatchedMinutes == { <<"0", "8", ":", "3", "1">>, <<"0", "8", ":", "3", "2">> }

\* GameClock(START_TIME, END_TIME, spd)
clock_new(spd) ==
    /\ speed' = spd
    /\ start_time' = _parse_time(START_TIME)
    /\ end_time' = _parse_time(END_TIME)
    /\ current_time' = _parse_time(START_TIME)
    /\ is_running' = FALSE
    /\ total_real_seconds' = 0
    /\ last_minute_emitted' = NoTime
    /\ bus_log' = <<>>
    /\ c_op' = [name |-> "__init__", arg |-> NoneVal]
    /\ minutes_published' = {}

\* The session's clock, built with the settings' speed
ClockInit ==
    /\ speed = GAME_SECONDS_PER_REAL_SECOND
    /\ start_time = _parse_time(START_TIME)
    /\ end_time = _parse_time(END_TIME)
    /\ current_time = start_time
    /\ is_running = FALSE
    /\ total_real_seconds = 0
    /\ last_minute_emitted = NoTime
    /\ bus_log = <<>>
    /\ c_op = [name |-> "__init__", arg |-> NoneVal]
    /\ minutes_published = {}

\* start()
clock_start ==
    /\ is_running' = TRUE
    /\ bus_log' = <<>>
    /\ c_op' = [name |-> "start", arg |-> NoneVal]
    /\ UNCHANGED <<speed, start_time, end_time, current_time,
                   total_real_seconds, last_minute_emitted, minutes_published>>

\* stop()
clock_stop ==
    /\ is_running' = FALSE
    /\ bus_log' = <<>>
    /\ c_op' = [name |-> "stop", arg |-> NoneVal]
    /\ UNCHANGED <<speed, start_time, end_time, current_time,
                   total_real_seconds, last_minute_emitted, minutes_published>>

\* reset()
clock_reset ==
    /\ current_time' = start_time
    /\ total_real_seconds' = 0
    /\ bus_log' = <<>>
    /\ c_op' = [name |-> "reset", arg |-> NoneVal]
    /\ UNCHANGED <<speed, start_time, end_time, is_running, last_minute_emitted,
                   minutes_published>>

\* tick(dt)
tick(dt) ==
    /\ c_op' = [name |-> "tick", arg |-> dt]
    /\ IF ~is_running \/ is_deadline
       THEN /\ bus_log' = <<>>
            /\ UNCHANGED <<speed, start_time, end_time, current_time, is_running,
                           total_real_seconds, last_minute_emitted,
                           minutes_published>>
       ELSE LET advanced   == current_time + GameSeconds(dt, speed)
                new_time   == ClampedTime(advanced, end_time)
                minute_str == strftime_HM(new_time)
            IN /\ total_real_seconds' = total_real_seconds + dt
               /\ current_time' = new_time
               /\ is_running' = IF advanced > end_time THEN FALSE ELSE is_running
               /\ IF minute_str # last_minute_emitted
                  THEN /\ last_minute_emitted' = minute_str
                       /\ bus_log' = << Event("TIME_TICK", <<>>, minute_str),
                                        Event("TIME_REACHED", <<>>, minute_str),
                                        Event("TIME_REACHED:", minute_str, minute_str) >>
                       /\ minutes_published' =
                             minutes_published \cup ({minute_str} \cap WatchedMinutes)
                  ELSE /\ bus_log' = <<>>
                       /\ UNCHANGED <<last_minute_emitted, minutes_published>>
               /\ UNCHANGED <<speed, start_time, end_time>>

\* A new clock replaces the current one
ClockNew ==
    /\ \E spd \in Speeds : clock_new(spd)
    /\ UNCHANGED nonClockVars

ClockStart ==
    /\ clock_start
    /\ UNCHANGED nonClockVars

ClockStop ==
    /\ clock_stop
    /\ UNCHANGED nonClockVars

ClockReset ==
    /\ clock_reset
    /\ UNCHANGED nonClockVars

ClockTick ==
    /\ \E dt \in DtChoices : tick(dt)
    /\ UNCHANGED nonClockVars

\* start() on the clock as constructed
ClockStartFresh ==
    /\ c_op.name = "__init__"
    /\ clock_start
    /\ UNCHANGED nonClockVars


(***************************************************************************)
(*                          TimelineController                             *)
(***************************************************************************)

\* parse_hhmm: the regular expression ^\d{2}:\d{2}$ and the range check
\* (hour 0..23, minute 0..59); TRUE when the result is not None
IsDigitChar(c) == \E i \in 1..10 : DigitChars[i] = c

parse_hhmm_ok(time_str) ==
    /\ Len(time_str) = 5
    /\ IsDigitChar(time_str[1]) /\ IsDigitChar(time_str[2])
    /\ time_str[3] = ":"
    /\ IsDigitChar(time_str[4]) /\ IsDigitChar(time_str[5])
    /\ ToInt(SubSeq(time_str, 1, 2)) <= 23
    /\ ToInt(SubSeq(time_str, 4, 5)) <= 59

T0830 == <<"0", "8", ":", "3", "0">>
T0831 == <<"0", "8", ":", "3", "1">>
T0832 == <<"0", "8", ":", "3", "2">>

\* The "events" lists load() may read: entries sharing a minute, entries
\* sharing a topic, an entry that emits TIME_REACHED itself, and malformed
\* ones (no leading zero, hour out of range, empty emit)
TimelineFiles ==
    { << [at |-> T0831, emit |-> "printer_jam"],
         [at |-> T0831, emit |-> "boss_call"],
         [at |-> T0832, emit |-> "printer_jam"] >>,
      << [at |-> <<"8", ":", "3", "1">>, emit |-> "boss_call"],
         [at |-> T0832, emit |-> "TIME_REACHED"],
         [at |-> <<"2", "5", ":", "0", "0">>, emit |-> "printer_jam"],
         [at |-> T0831, emit |-> ""],
         [at |-> T0831, emit |-> "boss_call"] >> }

\* The minute strings a poll or a TIME_REACHED payload carries; NoTime is a
\* payload without "time" (such as the {"at": ...} payload of a timeline
\* entry that emits TIME_REACHED itself)
TimeStrs == {T0830, T0831, T0832}
PayloadTimes == TimeStrs \cup {NoTime}

\* Nesting of update / _on_time_reached calls made from inside handlers
MaxDepth == 2

\* TimelineEvent(at=at, emit=emit)
TimelineEvent(at, emit) == [at |-> at, emit |-> emit, fired |-> FALSE]

\* load(): the entries kept from the file, in order
RECURSIVE LoadEvents(_)
LoadEvents(raw) ==
    IF raw = <<>> THEN <<>>
    ELSE LET e == Head(raw)
         IN IF parse_hhmm_ok(e.at) /\ e.emit # ""
            THEN <<TimelineEvent(e.at, e.emit)>> \o LoadEvents(Tail(raw))
            ELSE LoadEvents(Tail(raw))

\* _fire: "ev.fired = True"
MarkFired_skip(ev) == ev

MarkFired(ev) == [ev EXCEPT !.fired = TRUE]

TimelineInit ==
    /\ tl_events = <<>>
    /\ tl_subscribed = FALSE
    /\ tl_stack = <<>>
    /\ tl_emit_count = <<>>
    /\ tl_ns_count = <<>>

Top == tl_stack[Len(tl_stack)]

\* A call into the controller can be made by the host loop (nothing running)
\* or by a handler of an event that _fire is publishing.
CanCall ==
    \/ tl_stack = <<>>
    \/ /\ tl_stack # <<>>
       /\ Len(tl_stack) < MaxDepth
       /\ Top.pc \in {"emit", "emit_ns"}

Frame(fn, time_str) == [fn |-> fn, time_str |-> time_str, idx |-> 1, pc |-> "loop"]

\* load(path), called once by the host before the timeline runs
tl_load(raw) ==
    /\ tl_stack = <<>>
    /\ ~tl_subscribed
    /\ tl_events' = LoadEvents(raw)
    /\ tl_subscribed' = TRUE
    /\ tl_emit_count' = [i \in 1..Len(LoadEvents(raw)) |-> 0]
    /\ tl_ns_count' = [i \in 1..Len(LoadEvents(raw)) |-> 0]
    /\ UNCHANGED tl_stack

\* update(game_clock): entered, with time_str = game_clock.get_time_str()
tl_update(time_str) ==
    /\ CanCall
    /\ tl_stack' = Append(tl_stack, Frame("update", time_str))
    /\ UNCHANGED <<tl_events, tl_subscribed, tl_emit_count, tl_ns_count>>

\* _on_time_reached(payload): entered through the subscription made by load;
\* it returns at once when the payload has no "time"
tl_on_time_reached(time_str) ==
    /\ CanCall
    /\ tl_subscribed
    /\ tl_stack' = IF time_str = NoTime THEN tl_stack
                   ELSE Append(tl_stack, Frame("_on_time_reached", time_str))
    /\ UNCHANGED <<tl_events, tl_subscribed, tl_emit_count, tl_ns_count>>

\* One iteration of "for ev in self.events" of the innermost running call:
\* return after the last entry, enter _fire on an unfired entry whose at
\* matches, skip the entry otherwise. _fire sets fired and then starts
\* publishing ev.emit.
tl_loop ==
    /\ tl_stack # <<>>
    /\ Top.pc = "loop"
    /\ LET i == Top.idx
           n == Len(tl_stack)
       IN IF i > Len(tl_events)
          THEN /\ tl_stack' = SubSeq(tl_stack, 1, n - 1)
               /\ UNCHANGED <<tl_events, tl_emit_count, tl_ns_count>>
          ELSE IF ~tl_events[i].fired /\ tl_events[i].at = Top.time_str
               THEN /\ tl_events' = [tl_events EXCEPT ![i] = MarkFired(@)]
                    /\ tl_emit_count' = [tl_emit_count EXCEPT ![i] = @ + 1]
                    /\ tl_stack' = [tl_stack EXCEPT ![n].pc = "emit"]
                    /\ UNCHANGED tl_ns_count
               ELSE /\ tl_stack' = [tl_stack EXCEPT ![n].idx = i + 1]
                    /\ UNCHANGED <<tl_events, tl_emit_count, tl_ns_count>>
    /\ UNCHANGED tl_subscribed

\* _fire: event_bus.emit(ev.emit, ...) has returned, TIMELINE:<emit> is
\* being published
tl_fire_emit_ns ==
    /\ tl_stack # <<>>
    /\ Top.pc = "emit"
    /\ tl_ns_count' = [tl_ns_count EXCEPT ![Top.idx] = @ + 1]
    /\ tl_stack' = [tl_stack EXCEPT ![Len(tl_stack)].pc = "emit_ns"]
    /\ UNCHANGED <<tl_events, tl_subscribed, tl_emit_count>>

\* _fire returns; the loop goes on with the next entry
tl_fire_return ==
    /\ tl_stack # <<>>
    /\ Top.pc = "emit_ns"
    /\ tl_stack' = [tl_stack EXCEPT ![Len(tl_stack)].pc = "loop",
                                    ![Len(tl_stack)].idx = @ + 1]
    /\ UNCHANGED <<tl_events, tl_subscribed, tl_emit_count, tl_ns_count>>

TimelineLoad ==
    /\ \E raw \in TimelineFiles : tl_load(raw)
    /\ UNCHANGED nonTimelineVars

TimelineUpdate ==
    /\ \E time_str \in TimeStrs : tl_update(time_str)
    /\ UNCHANGED nonTimelineVars

TimelineOnTimeReached ==
    /\ \E time_str \in PayloadTimes : tl_on_time_reached(time_str)
    /\ UNCHANGED nonTimelineVars

TimelineLoop ==
    /\ tl_loop
    /\ UNCHANGED nonTimelineVars

TimelineFireEmitNs ==
    /\ tl_fire_emit_ns
    /\ UNCHANGED nonTimelineVars

TimelineFireReturn ==
    /\ tl_fire_return
    /\ UNCHANGED nonTimelineVars

\* One frame of the host loop: game_clock.tick(dt), during which the bus
\* hands a published TIME_REACHED to _on_time_reached, and then
\* timeline.update(game_clock). The two calls into the controller are left
\* to run one after the other, the handler first.
session_frame(dt) ==
    /\ tl_stack = <<>>
    /\ tl_subscribed
    /\ tick(dt)
    /\ LET reached == {i \in 1..Len(bus_log') :
                          bus_log'[i].topic = [name |-> "TIME_REACHED", suffix |-> <<>>]}
           pushed  == IF reached = {} THEN <<>>
                      ELSE << Frame("_on_time_reached",
                                    bus_log'[CHOOSE i \in reached : TRUE].payload.time) >>
       IN tl_stack' = << Frame("update", strftime_HM(current_time')) >> \o pushed
    /\ UNCHANGED <<tl_events, tl_subscribed, tl_emit_count, tl_ns_count>>

SessionFrame ==
    /\ \E dt \in DtChoices : session_frame(dt)
    /\ UNCHANGED <<taskVars, elevatorVars, eventBusVars, triggerVars>>


(***************************************************************************)
(*                                Elevator                                 *)
(***************************************************************************)

\* ElevatorState
IDLE == "idle"
MOVING_UP == "moving_up"
MOVING_DOWN == "moving_down"
OPENING_DOORS == "opening_doors"
CLOSING_DOORS == "closing_doors"
DOORS_OPEN == "doors_open"

\* settings.py
MIN_FLOOR == 90
MAX_FLOOR == 98

\* Durations, in seconds
door_animation_duration == 1
floor_travel_time == 2

\* The floors passed to call and go_to: the three lowest floors of the
\* building and one floor beyond each end of it
FloorArgs == {MIN_FLOOR - 1, MIN_FLOOR, MIN_FLOOR + 1, MIN_FLOOR + 2, MAX_FLOOR + 1}

\* The dt arguments of update, in seconds
ElevatorDts == {1, 2, 6}

\* Those of them that call and go_to accept
ValidFloors == {floor \in FloorArgs : MIN_FLOOR <= floor /\ floor <= MAX_FLOOR}

\* The floors called in the hall-call scenario: the starting floor and the
\* three above it
HallFloors == MIN_FLOOR .. (MIN_FLOOR + 3)

\* go_to calls counted by total_uses before the model stops issuing them
MaxUses == 1

Min(a, b) == IF a < b THEN a ELSE b

\* animation_time is only compared (>=) with door_animation_duration and
\* with the travel time between two floors the elevator is sent to, which is
\* at most AnimationCap: beyond it all values behave alike and are recorded
\* as AnimationCap.
AnimationCap ==
    LET sent == ValidFloors \cup HallFloors
        top == CHOOSE f \in sent : \A g \in sent : g <= f
    IN (top - MIN_FLOOR) * floor_travel_time

\* "self.animation_time += dt"
AdvanceAnimation_lost(anim, dt) == anim

AdvanceAnimation(anim, dt) == Min(anim + dt, AnimationCap)

\* "if self.animation_time >= total_time" / ">= self.door_animation_duration"
HasElapsed_strict(anim, duration) == anim > duration

HasElapsed(anim, duration) == anim >= duration

\* The stopwatch stops counting at StopwatchCap.
StopwatchCap == 4 * (2 * floor_travel_time + door_animation_duration)
NotArrived == 0 - 1

\* _is_valid_floor
_is_valid_floor_open(floor) == MIN_FLOOR <= floor

_is_valid_floor(floor) == MIN_FLOOR <= floor /\ floor <= MAX_FLOOR

ElevatorInit ==
    /\ current_floor = MIN_FLOOR
    /\ target_floor = MIN_FLOOR
    /\ el_state = IDLE
    /\ animation_time = 0
    /\ call_queue = <<>>
    /\ total_uses = 0
    /\ floors_visited = {}
    /\ el_callbacks = <<>>
    /\ e_op = [name |-> "__init__", arg |-> 0]
    /\ e_ret = NoneVal
    /\ el_quiet = FALSE
    /\ el_timed = FALSE
    /\ el_elapsed = 0
    /\ el_arrived_at = NotArrived

\* The elevator's own fields as a record, so that the private helpers can
\* be composed the way the methods call each other.
ElevatorFields ==
    [current_floor |-> current_floor, target_floor |-> target_floor,
     state |-> el_state, animation_time |-> animation_time,
     call_queue |-> call_queue, floors_visited |-> floors_visited,
     callbacks |-> <<>>]

\* _start_opening_doors
_start_opening_doors_keep(e) == [e EXCEPT !.state = OPENING_DOORS]

_start_opening_doors(e) == [e EXCEPT !.state = OPENING_DOORS, !.animation_time = 0]

\* _start_closing_doors
_start_closing_doors(e) == [e EXCEPT !.state = CLOSING_DOORS, !.animation_time = 0]

\* _process_next_call
_process_next_call_peek(e) ==
    IF e.call_queue = <<>> THEN e
    ELSE LET next_floor == Head(e.call_queue)
         IN IF next_floor = e.current_floor
            THEN _start_opening_doors(e)
            ELSE [e EXCEPT !.target_floor = next_floor,
                           !.animation_time = 0,
                           !.state = IF next_floor > e.current_floor
                                     THEN MOVING_UP ELSE MOVING_DOWN]

_process_next_call(e) ==
    IF e.call_queue = <<>> THEN e
    ELSE LET next_floor == Head(e.call_queue)
             popped == [e EXCEPT !.call_queue = Tail(e.call_queue)]
         IN IF next_floor = e.current_floor
            THEN _start_opening_doors(popped)
            ELSE [popped EXCEPT !.target_floor = next_floor,
                                !.animation_time = 0,
                                !.state = IF next_floor > e.current_floor
                                          THEN MOVING_UP ELSE MOVING_DOWN]

\* _update_moving_up / _update_moving_down (display_floor is not modelled)
_update_moving_nosnap(e) ==
    LET floors_to_travel == IF e.state = MOVING_UP
                            THEN e.target_floor - e.current_floor
                            ELSE e.current_floor - e.target_floor
        total_time == (IF e.state = MOVING_UP /\ floors_to_travel < 0
                       THEN 0 - floors_to_travel ELSE floors_to_travel)
                      * floor_travel_time
    IN IF HasElapsed(e.animation_time, total_time)
       THEN [_start_opening_doors(
                [e EXCEPT !.floors_visited = @ \cup {e.target_floor}])
             EXCEPT !.callbacks = Append(@, <<"on_floor_reached", e.target_floor>>)]
       ELSE e

_update_moving(e) ==
    LET floors_to_travel == IF e.state = MOVING_UP
                            THEN e.target_floor - e.current_floor
                            ELSE e.current_floor - e.target_floor
        total_time == (IF e.state = MOVING_UP /\ floors_to_travel < 0
                       THEN 0 - floors_to_travel ELSE floors_to_travel)
                      * floor_travel_time
    IN IF HasElapsed(e.animation_time, total_time)
       THEN [_start_opening_doors(
                [e EXCEPT !.current_floor = e.target_floor,
                          !.floors_visited = @ \cup {e.target_floor}])
             EXCEPT !.callbacks = Append(@, <<"on_floor_reached", e.target_floor>>)]
       ELSE e

\* _update_opening_doors
_update_opening_doors(e) ==
    IF HasElapsed(e.animation_time, door_animation_duration)
    THEN [e EXCEPT !.state = DOORS_OPEN,
                   !.callbacks = Append(@, <<"on_doors_opened">>)]
    ELSE e

\* _update_closing_doors, leaving the queue for the next update
_update_closing_doors_idle(e) ==
    IF HasElapsed(e.animation_time, door_animation_duration)
    THEN [e EXCEPT !.state = IDLE,
                   !.callbacks = Append(@, <<"on_doors_closed">>)]
    ELSE e

\* _update_closing_doors
_update_closing_doors(e) ==
    IF HasElapsed(e.animation_time, door_animation_duration)
    THEN LET closed == [e EXCEPT !.state = IDLE,
                                 !.callbacks = Append(@, <<"on_doors_closed">>)]
         IN IF closed.call_queue # <<>> THEN _process_next_call(closed) ELSE closed
    ELSE e

\* The fields after update(dt)
Updated(e, dt) ==
    LET t == [e EXCEPT !.animation_time = AdvanceAnimation(@, dt)]
    IN CASE t.state \in {MOVING_UP, MOVING_DOWN} -> _update_moving(t)
         [] t.state = OPENING_DOORS -> _update_opening_doors(t)
         [] t.state = CLOSING_DOORS -> _update_closing_doors(t)
         [] t.state = DOORS_OPEN -> t
         [] t.state = IDLE -> IF t.call_queue # <<>> THEN _process_next_call(t) ELSE t

\* Write the fields back
SetElevator(e) ==
    /\ current_floor' = e.current_floor
    /\ target_floor' = e.target_floor
    /\ el_state' = e.state
    /\ animation_time' = e.animation_time
    /\ call_queue' = e.call_queue
    /\ floors_visited' = e.floors_visited
    /\ el_callbacks' = e.callbacks

InQueue_never(floor, q) == FALSE

InQueue(floor, q) == \E i \in 1..Len(q) : q[i] = floor

\* The stopwatch is cleared by every call other than update.
StopwatchOff ==
    /\ el_timed' = FALSE
    /\ el_elapsed' = 0
    /\ el_arrived_at' = NotArrived

\* call(floor)
call(floor) ==
    LET e == ElevatorFields
    IN /\ e_op' = [name |-> "call", arg |-> floor]
       /\ IF ~_is_valid_floor(floor)
          THEN /\ e_ret' = FALSE
               /\ SetElevator(e)
          ELSE /\ e_ret' = TRUE
               /\ IF floor = current_floor /\ el_state = IDLE
                  THEN SetElevator(_start_opening_doors(e))
                  ELSE LET queued == IF InQueue(floor, call_queue) THEN e
                                     ELSE [e EXCEPT !.call_queue = Append(@, floor)]
                       IN IF el_state = IDLE
                          THEN SetElevator(_process_next_call(queued))
                          ELSE SetElevator(queued)
       /\ UNCHANGED total_uses

\* go_to(floor)
go_to_append(floor) ==
    LET e == ElevatorFields
    IN /\ e_op' = [name |-> "go_to", arg |-> floor]
       /\ IF ~_is_valid_floor(floor)
          THEN /\ e_ret' = FALSE
               /\ SetElevator(e)
               /\ UNCHANGED total_uses
          ELSE LET only == [e EXCEPT !.call_queue = Append(@, floor)]
               IN /\ e_ret' = TRUE
                  /\ total_uses' = total_uses + 1
                  /\ IF el_state = DOORS_OPEN
                     THEN SetElevator(_start_closing_doors(only))
                     ELSE IF el_state = IDLE
                          THEN SetElevator(_process_next_call(only))
                          ELSE SetElevator(only)

go_to(floor) ==
    LET e == ElevatorFields
    IN /\ e_op' = [name |-> "go_to", arg |-> floor]
       /\ IF ~_is_valid_floor(floor)
          THEN /\ e_ret' = FALSE
               /\ SetElevator(e)
               /\ UNCHANGED total_uses
          ELSE LET only == [e EXCEPT !.call_queue = <<floor>>]
               IN /\ e_ret' = TRUE
                  /\ total_uses' = total_uses + 1
                  /\ IF el_state = DOORS_OPEN
                     THEN SetElevator(_start_closing_doors(only))
                     ELSE IF el_state = IDLE
                          THEN SetElevator(_process_next_call(only))
                          ELSE SetElevator(only)

\* update(dt)
update(dt) ==
    LET e == Updated(ElevatorFields, dt)
    IN /\ e_op' = [name |-> "update", arg |-> dt]
       /\ e_ret' = NoneVal
       /\ SetElevator(e)
       /\ UNCHANGED total_uses
       /\ el_elapsed' = IF el_timed THEN Min(el_elapsed + dt, StopwatchCap) ELSE el_elapsed
       /\ el_arrived_at' = IF /\ el_timed
                              /\ el_state \in {MOVING_UP, MOVING_DOWN}
                              /\ e.state \notin {MOVING_UP, MOVING_DOWN}
                           THEN Min(el_elapsed + dt, StopwatchCap)
                           ELSE el_arrived_at
       /\ UNCHANGED el_timed

\* force_close_doors()
force_close_doors ==
    /\ e_op' = [name |-> "force_close_doors", arg |-> 0]
    /\ IF el_state = DOORS_OPEN
       THEN /\ SetElevator(_start_closing_doors(ElevatorFields))
            /\ e_ret' = TRUE
       ELSE /\ SetElevator(ElevatorFields)
            /\ e_ret' = FALSE
    /\ UNCHANGED total_uses

\* clear_queue()
clear_queue ==
    /\ e_op' = [name |-> "clear_queue", arg |-> 0]
    /\ e_ret' = NoneVal
    /\ SetElevator([ElevatorFields EXCEPT !.call_queue = <<>>])
    /\ UNCHANGED total_uses

ElevatorCall ==
    /\ \E floor \in FloorArgs : call(floor)
    /\ StopwatchOff
    /\ UNCHANGED el_quiet
    /\ UNCHANGED nonElevatorVars

ElevatorGoTo ==
    /\ total_uses < MaxUses
    /\ \E floor \in FloorArgs : go_to(floor)
    /\ StopwatchOff
    /\ UNCHANGED el_quiet
    /\ UNCHANGED nonElevatorVars

ElevatorForceClose ==
    /\ force_close_doors
    /\ StopwatchOff
    /\ UNCHANGED el_quiet
    /\ UNCHANGED nonElevatorVars

ElevatorClearQueue ==
    /\ clear_queue
    /\ StopwatchOff
    /\ UNCHANGED el_quiet
    /\ UNCHANGED nonElevatorVars

\* Hall calls from any of the floors of the hall-call scenario
ElevatorHallCall ==
    /\ \E floor \in HallFloors : call(floor)
    /\ StopwatchOff
    /\ UNCHANGED el_quiet
    /\ UNCHANGED nonElevatorVars

\* The commands of the host while it still issues commands; a refused
\* floor changes nothing, so only accepted floors are passed here.
ElevatorCommand ==
    /\ ~el_quiet
    /\ \/ \E floor \in ValidFloors : call(floor)
       \/ total_uses < MaxUses /\ \E floor \in ValidFloors : go_to(floor)
       \/ force_close_doors
       \/ clear_queue
    /\ StopwatchOff
    /\ UNCHANGED el_quiet
    /\ UNCHANGED nonElevatorVars

ElevatorUpdate ==
    /\ \E dt \in ElevatorDts : update(dt)
    /\ UNCHANGED el_quiet
    /\ UNCHANGED nonElevatorVars

\* The host stops issuing commands: from here on it only calls update().
ElevatorQuiet ==
    /\ ~el_quiet
    /\ el_quiet' = TRUE
    /\ UNCHANGED <<current_floor, target_floor, el_state, animation_time, call_queue,
                   total_uses, floors_visited, el_callbacks, e_op, e_ret,
                   el_timed, el_elapsed, el_arrived_at>>
    /\ UNCHANGED nonElevatorVars

\* Scenario C: call(MIN_FLOOR + 2) on the elevator as constructed, with the
\* stopwatch started
ElevatorScenarioCall ==
    /\ e_op.name = "__init__"
    /\ call(MIN_FLOOR + 2)
    /\ el_timed' = TRUE
    /\ el_elapsed' = 0
    /\ el_arrived_at' = NotArrived
    /\ UNCHANGED el_quiet
    /\ UNCHANGED nonElevatorVars

(***************************************************************************)
(*                               EventBus                                  *)
(***************************************************************************)

\* Bounds: the subscriptions the bus holds in all, and the emit calls that
\* can be nested on the call stack
MaxSubscriptions == 3
MaxEmitDepth == 2

\* Topics are free strings; two of them are enough to tell a topic from
\* another one
Topics == {"TIME_TICK", "TIME_REACHED"}

OtherTopic(topic) == IF topic = "TIME_TICK" THEN "TIME_REACHED" ELSE "TIME_TICK"

\* Handlers are opaque callables. One of each behaviour:
\*   on_ok        returns
\*   on_raise     raises an Exception
\*   on_subscribe subscribes itself once more to the topic it is called for
\*   on_emit      emits the other topic, with the payload it received
Handlers == {"on_ok", "on_raise", "on_subscribe", "on_emit"}

\* Payloads: None, the empty dict and a non-empty dict
EmptyDict == "{}"
Payloads == {NoneVal, EmptyDict, "{time}"}

\* payload or {}
PayloadOrEmpty(payload) ==
    IF payload \in {NoneVal, EmptyDict} THEN EmptyDict ELSE payload

NoSubscribers == [topic \in {} |-> <<>>]

\* self._subscribers.get(event_type, [])
SubscribersGet(subs, topic) ==
    IF topic \in DOMAIN subs THEN subs[topic] ELSE <<>>

RECURSIVE SubscriptionCount(_, _)
SubscriptionCount(subs, topics) ==
    IF topics = {} THEN 0
    ELSE LET topic == CHOOSE x \in topics : TRUE
         IN  Len(SubscribersGet(subs, topic))
               + SubscriptionCount(subs, topics \ {topic})

\* EventBus.subscribe, as a function of the dict
Subscribed(subs, topic, handler) ==
    [x \in DOMAIN subs \cup {topic} |->
        IF x = topic THEN Append(SubscribersGet(subs, topic), handler)
        ELSE subs[x]]

\* One running emit call: its arguments, the position of the for loop in
\* the handler list, the handlers it has invoked so far, and the handler
\* list as it was when emit was called
EmitFrame(topic, payload, subs) ==
    [topic |-> topic, payload |-> payload, i |-> 1, called |-> <<>>,
     at_call |-> SubscribersGet(subs, topic)]

EbTop == eb_stack[Len(eb_stack)]

EbRest == SubSeq(eb_stack, 1, Len(eb_stack) - 1)

\* EventBus.__init__
EventBusInit ==
    /\ eb_subscribers = NoSubscribers
    /\ eb_stack = <<>>
    /\ eb_ret = <<>>

\* EventBus.subscribe
subscribe(topic, handler) ==
    /\ SubscriptionCount(eb_subscribers, Topics) < MaxSubscriptions
    /\ eb_subscribers' = Subscribed(eb_subscribers, topic, handler)

\* EventBus.emit, up to the first iteration of its loop, called with the
\* calls of stack running beneath it
emit(stack, topic, payload) ==
    /\ Len(stack) < MaxEmitDepth
    /\ eb_stack' = Append(stack, EmitFrame(topic, payload, eb_subscribers))

\* One iteration of the for loop of emit, without its try / except: the
\* exception of a handler ends the emit call and reaches the publisher
emit_loop_unguarded ==
    /\ eb_stack # <<>>
    /\ EbTop.i <= Len(SubscribersGet(eb_subscribers, EbTop.topic))
    /\ LET f == EbTop
           handler == SubscribersGet(eb_subscribers, f.topic)[f.i]
           g == [f EXCEPT !.i = f.i + 1, !.called = Append(f.called, handler)]
       IN  CASE handler = "on_raise" ->
                    /\ eb_stack' = EbRest
                    /\ eb_ret' = <<[topic |-> f.topic, called |-> g.called,
                                    at_call |-> f.at_call,
                                    at_return |-> SubscribersGet(eb_subscribers, f.topic),
                                    delivered |-> PayloadOrEmpty(f.payload),
                                    raised |-> TRUE]>>
                    /\ UNCHANGED eb_subscribers
              [] handler = "on_subscribe" ->
                    /\ subscribe(f.topic, "on_subscribe")
                    /\ eb_stack' = Append(EbRest, g)
                    /\ UNCHANGED eb_ret
              [] handler = "on_emit" ->
                    /\ Len(eb_stack) < MaxEmitDepth
                    /\ eb_stack' = Append(Append(EbRest, g),
                                          EmitFrame(OtherTopic(f.topic),
                                                    PayloadOrEmpty(f.payload),
                                                    eb_subscribers))
                    /\ UNCHANGED <<eb_subscribers, eb_ret>>
              [] OTHER ->
                    /\ eb_stack' = Append(EbRest, g)
                    /\ UNCHANGED <<eb_subscribers, eb_ret>>

\* One iteration of the for loop of emit: the next handler of the live list
\* is called with payload or {}; what it raises is swallowed
emit_loop ==
    /\ eb_stack # <<>>
    /\ EbTop.i <= Len(SubscribersGet(eb_subscribers, EbTop.topic))
    /\ LET f == EbTop
           handler == SubscribersGet(eb_subscribers, f.topic)[f.i]
           g == [f EXCEPT !.i = f.i + 1, !.called = Append(f.called, handler)]
       IN  CASE handler = "on_subscribe" ->
                    /\ subscribe(f.topic, "on_subscribe")
                    /\ eb_stack' = Append(EbRest, g)
                    /\ UNCHANGED eb_ret
              [] handler = "on_emit" ->
                    /\ emit(Append(EbRest, g), OtherTopic(f.topic),
                            PayloadOrEmpty(f.payload))
                    /\ UNCHANGED <<eb_subscribers, eb_ret>>
              [] OTHER ->
                    /\ eb_stack' = Append(EbRest, g)
                    /\ UNCHANGED <<eb_subscribers, eb_ret>>

\* The for loop of emit is exhausted: emit returns to its caller
emit_return ==
    /\ eb_stack # <<>>
    /\ EbTop.i > Len(SubscribersGet(eb_subscribers, EbTop.topic))
    /\ eb_stack' = EbRest
    /\ eb_ret' = <<[topic |-> EbTop.topic, called |-> EbTop.called,
                    at_call |-> EbTop.at_call,
                    at_return |-> SubscribersGet(eb_subscribers, EbTop.topic),
                    delivered |-> PayloadOrEmpty(EbTop.payload),
                    raised |-> FALSE]>>
    /\ UNCHANGED eb_subscribers

\* The host subscribes a handler; it can only do so while no emit is running
EventBusSubscribe ==
    /\ eb_stack = <<>>
    /\ \E topic \in Topics, handler \in Handlers : subscribe(topic, handler)
    /\ UNCHANGED <<eb_stack, eb_ret>>
    /\ UNCHANGED nonEventBusVars

\* The host publishes an event
EventBusEmit ==
    /\ eb_stack = <<>>
    /\ \E topic \in Topics, payload \in Payloads : emit(eb_stack, topic, payload)
    /\ eb_ret' = <<>>
    /\ UNCHANGED eb_subscribers
    /\ UNCHANGED nonEventBusVars

EventBusLoop ==
    /\ emit_loop
    /\ UNCHANGED nonEventBusVars

EventBusReturn ==
    /\ emit_return
    /\ UNCHANGED nonEventBusVars

(***************************************************************************)
(*                            TriggerManager                               *)
(***************************************************************************)

\* Bounds: the triggers registered at once, the invocations counted per
\* callback, and the dwell time a trigger accumulates
MaxTriggers == 2
MaxCalls == 2
MaxTimeInZone == 4

\* TriggerType values
ENTER_ZONE == "enter_zone"
EXIT_ZONE == "exit_zone"
STAY_IN_ZONE == "stay_in_zone"
INTERACT_NEAR == "interact_near"
TIME_BASED == "time_based"
TASK_COMPLETION == "task_completion"

\* Optional fields of a TriggerCondition. A pygame.Rect is the tuple
\* <<left, top, width, height>>, a position the tuple <<x, y>>; the absent
\* value of both is the empty tuple. A radius of None behaves as a radius of
\* 0 wherever the code reads it (it is only tested for truth and compared
\* after "or radius"), so both are the number 0.
NoRect == <<>>
NoPos == <<>>
NoRadius == 0

\* TriggerCondition
TriggerCondition(type, rect, radius, center, time, task, stay) ==
    [trigger_type |-> type, zone_rect |-> rect, radius |-> radius,
     center_pos |-> center, time_condition |-> time, task_id |-> task,
     stay_duration |-> stay]

\* Trigger.__init__; raises says whether the callback raises an Exception
Trigger(id, condition, raises, repeatable) ==
    [id |-> id, condition |-> condition, raises |-> raises,
     repeatable |-> repeatable, triggered |-> FALSE, active |-> TRUE,
     time_in_zone |-> 0, player_in_zone |-> FALSE]

\* The zones of the catalogue: a rectangle from (2,0) to (4,2) and a disc of
\* radius 1 around (3,1)
ZoneRect == <<2, 0, 2, 2>>
ZoneCenter == <<3, 1>>
ZoneRadius == 1
StayDuration == 3

RectCond(type) == TriggerCondition(type, ZoneRect, NoRadius, NoPos, NoneVal, NoneVal, 0)

DiscCond(type) == TriggerCondition(type, NoRect, ZoneRadius, ZoneCenter, NoneVal, NoneVal, 0)

\* The triggers the host can register
TriggerCatalog ==
    { Trigger("enter", RectCond(ENTER_ZONE), FALSE, FALSE),
      Trigger("enter_rep", DiscCond(ENTER_ZONE), FALSE, TRUE),
      Trigger("exit_rep", RectCond(EXIT_ZONE), FALSE, TRUE),
      Trigger("stay", [RectCond(STAY_IN_ZONE) EXCEPT !.stay_duration = StayDuration],
              FALSE, FALSE),
      Trigger("stay_rep", [DiscCond(STAY_IN_ZONE) EXCEPT !.stay_duration = StayDuration],
              FALSE, TRUE),
      Trigger("interact", RectCond(INTERACT_NEAR), FALSE, FALSE),
      Trigger("interact_rep",
              TriggerCondition(INTERACT_NEAR, NoRect, NoRadius, ZoneCenter,
                               NoneVal, NoneVal, 0), FALSE, TRUE),
      Trigger("time",
              TriggerCondition(TIME_BASED, NoRect, NoRadius, NoPos,
                               "08:31", NoneVal, 0), FALSE, FALSE),
      Trigger("task",
              TriggerCondition(TASK_COMPLETION, NoRect, NoRadius, NoPos,
                               NoneVal, "M1", 0), FALSE, FALSE),
      Trigger("task_raises",
              TriggerCondition(TASK_COMPLETION, NoRect, NoRadius, NoPos,
                               NoneVal, "M1", 0), TRUE, FALSE) }

TriggerIds == { t.id : t \in TriggerCatalog }

\* The arguments of the manager's calls: the player is polled outside the
\* zones or at their centre, and interacts at the centre or two units off the
\* rectangle's right edge, which is three units off the disc's centre
TriggerFloors == {1, 2}
RegistrationFloors == {1}
TriggerDts == {1, 2}
PlayerPositions == { <<0, 1>>, <<3, 1>> }
InteractPositions == { <<3, 1>>, <<6, 1>> }
TriggerTimes == {"08:30", "08:31"}
CompletedSets == { {}, {"M1"} }
InteractRadii == {0, 3}

\* bool(rect): a pygame.Rect is true when its width and height are not 0
RectTruth(rect) == rect # NoRect /\ rect[3] # 0 /\ rect[4] # 0

\* utils.point_in_rect
point_in_rect(point, rect) ==
    /\ rect[1] <= point[1] /\ point[1] <= rect[1] + rect[3]
    /\ rect[2] <= point[2] /\ point[2] <= rect[2] + rect[4]

\* utils.distance(pos1, pos2) <= r, for r >= 0
distance_within(pos1, pos2, r) ==
    LET dx == pos2[1] - pos1[1]
        dy == pos2[2] - pos1[2]
    IN  dx * dx + dy * dy <= r * r

\* rect.inflate(x, y), for even x and y
Inflate(rect, x, y) ==
    <<rect[1] - x \div 2, rect[2] - y \div 2, rect[3] + x, rect[4] + y>>

\* Each _check_* operator gives the trigger after the check and what the
\* check returned.
Checked(t, should) == [trigger |-> t, should |-> should]

\* Trigger._check_enter_zone
_check_enter_zone(t, player_pos) ==
    LET c == t.condition
        entered == Checked([t EXCEPT !.player_in_zone = TRUE], TRUE)
    IN  IF RectTruth(c.zone_rect)
        THEN IF point_in_rect(player_pos, c.zone_rect) /\ ~t.player_in_zone
             THEN entered ELSE Checked(t, FALSE)
        ELSE IF c.center_pos # NoPos /\ c.radius # 0
        THEN IF distance_within(player_pos, c.center_pos, c.radius) /\ ~t.player_in_zone
             THEN entered ELSE Checked(t, FALSE)
        ELSE Checked(t, FALSE)

\* Trigger._check_exit_zone
_check_exit_zone(t, player_pos) ==
    LET c == t.condition
        left == Checked([t EXCEPT !.player_in_zone = FALSE], TRUE)
    IN  IF RectTruth(c.zone_rect)
        THEN IF ~point_in_rect(player_pos, c.zone_rect) /\ t.player_in_zone
             THEN left ELSE Checked(t, FALSE)
        ELSE IF c.center_pos # NoPos /\ c.radius # 0
        THEN IF ~distance_within(player_pos, c.center_pos, c.radius) /\ t.player_in_zone
             THEN left ELSE Checked(t, FALSE)
        ELSE Checked(t, FALSE)

\* Trigger._check_stay_in_zone
_check_stay_in_zone(t, dt, player_pos) ==
    LET c == t.condition
        in_zone == IF RectTruth(c.zone_rect)
                   THEN point_in_rect(player_pos, c.zone_rect)
                   ELSE IF c.center_pos # NoPos /\ c.radius # 0
                   THEN distance_within(player_pos, c.center_pos, c.radius)
                   ELSE FALSE
    IN  IF in_zone
        THEN Checked([t EXCEPT !.time_in_zone = @ + dt],
                     t.time_in_zone + dt >= c.stay_duration)
        ELSE Checked([t EXCEPT !.time_in_zone = 0], FALSE)

\* Trigger._check_time_condition
_check_time_condition(t, current_time_str) ==
    /\ t.condition.time_condition # NoneVal
    /\ current_time_str = t.condition.time_condition

\* Trigger._check_task_completion
_check_task_completion(t, completed) ==
    /\ t.condition.task_id # NoneVal
    /\ t.condition.task_id \in completed

\* Trigger._execute: the callback is invoked; triggered is set only when it
\* returns
_execute(t) == [t EXCEPT !.triggered = IF t.raises THEN @ ELSE TRUE]

\* Each call of a Trigger method gives the trigger after the call, what the
\* call returned and whether it invoked the callback.
Called(t, ret) == [trigger |-> t, ret |-> ret, invoked |-> ret]

\* Trigger.update
TriggerUpdated(t, dt, player_pos, current_time_str, completed) ==
    IF ~t.active \/ (t.triggered /\ ~t.repeatable)
    THEN Called(t, FALSE)
    ELSE LET type == t.condition.trigger_type
             chk == CASE type = ENTER_ZONE -> _check_enter_zone(t, player_pos)
                      [] type = EXIT_ZONE -> _check_exit_zone(t, player_pos)
                      [] type = STAY_IN_ZONE -> _check_stay_in_zone(t, dt, player_pos)
                      [] type = TIME_BASED ->
                             Checked(t, _check_time_condition(t, current_time_str))
                      [] type = TASK_COMPLETION ->
                             Checked(t, _check_task_completion(t, completed))
                      [] OTHER -> Checked(t, FALSE)
         IN  IF chk.should
             THEN Called(_execute(chk.trigger), TRUE)
             ELSE Called(chk.trigger, FALSE)

\* Trigger.trigger_interaction
trigger_interaction(t) ==
    IF t.condition.trigger_type = INTERACT_NEAR /\ t.active
          /\ (~t.triggered \/ t.repeatable)
    THEN Called(_execute(t), TRUE)
    ELSE Called(t, FALSE)

\* self.floor_triggers.get(current_floor, [])
FloorTriggersGet(floor) ==
    IF floor \in DOMAIN tr_floor_triggers THEN tr_floor_triggers[floor] ELSE <<>>

\* The state a manager call threads through its loops: the triggers, the
\* callbacks invoked so far and the list of ids to return
Pass(trigs, invoked, ids) == [trigs |-> trigs, invoked |-> invoked, ids |-> ids]

AfterCall(st, id, r) ==
    Pass([st.trigs EXCEPT ![id] = r.trigger],
         IF r.invoked THEN Append(st.invoked, id) ELSE st.invoked,
         IF r.ret /\ \A k \in DOMAIN st.ids : st.ids[k] # id
         THEN Append(st.ids, id) ELSE st.ids)

\* The two loops of TriggerManager.update over the list ids
RECURSIVE UpdateLoop(_, _, _, _, _, _)
UpdateLoop(st, ids, dt, player_pos, current_time_str, completed) ==
    IF ids = <<>> THEN st
    ELSE LET id == Head(ids)
             next == IF id \in DOMAIN st.trigs
                     THEN AfterCall(st, id,
                                    TriggerUpdated(st.trigs[id], dt, player_pos,
                                                   current_time_str, completed))
                     ELSE st
         IN  UpdateLoop(next, Tail(ids), dt, player_pos, current_time_str, completed)

\* The proximity test of trigger_interaction_near
Near(t, player_pos, radius) ==
    LET c == t.condition
    IN  IF RectTruth(c.zone_rect)
        THEN point_in_rect(player_pos, Inflate(c.zone_rect, radius * 2, radius * 2))
        ELSE IF c.center_pos # NoPos
        THEN distance_within(player_pos, c.center_pos,
                             IF c.radius # 0 THEN c.radius ELSE radius)
        ELSE FALSE

\* The loop of TriggerManager.trigger_interaction_near over the list ids
RECURSIVE InteractLoop(_, _, _, _)
InteractLoop(st, ids, player_pos, radius) ==
    IF ids = <<>> THEN st
    ELSE LET id == Head(ids)
             next == IF id \in DOMAIN st.trigs
                        /\ st.trigs[id].condition.trigger_type = INTERACT_NEAR
                        /\ Near(st.trigs[id], player_pos, radius)
                     THEN AfterCall(st, id, trigger_interaction(st.trigs[id]))
                     ELSE st
         IN  InteractLoop(next, Tail(ids), player_pos, radius)

\* How many times id occurs in the sequence s
RECURSIVE Occurrences(_, _)
Occurrences(s, id) ==
    IF s = <<>> THEN 0
    ELSE (IF Head(s) = id THEN 1 ELSE 0) + Occurrences(Tail(s), id)

\* The in_zone test of _check_stay_in_zone
InZone(t, pos) ==
    IF RectTruth(t.condition.zone_rect)
    THEN point_in_rect(pos, t.condition.zone_rect)
    ELSE IF t.condition.center_pos # NoPos /\ t.condition.radius # 0
    THEN distance_within(pos, t.condition.center_pos, t.condition.radius)
    ELSE FALSE

\* The dwell of the player in the zone of the STAY_IN_ZONE trigger t after the
\* manager call op, when it was dwell before
Dwell(t, dwell, op) ==
    IF op.name # "update" \/ t.condition.trigger_type # STAY_IN_ZONE THEN dwell
    ELSE IF InZone(t, op.pos) THEN dwell + op.dt
    ELSE 0

\* What a manager call that ended in state st leaves behind
TriggerCallDone(st, op) ==
    /\ \A id \in DOMAIN tr_dwell :
          Dwell(st.trigs[id], tr_dwell[id], op) <= MaxTimeInZone
    /\ tr_dwell' = [id \in DOMAIN tr_dwell |->
                       Dwell(st.trigs[id], tr_dwell[id], op)]
    /\ \A id \in DOMAIN tr_calls :
          tr_calls[id] + Occurrences(st.invoked, id) <= MaxCalls
    /\ \A id \in DOMAIN st.trigs : st.trigs[id].time_in_zone <= MaxTimeInZone
    /\ tr_triggers' = st.trigs
    /\ tr_calls' = [id \in DOMAIN tr_calls |->
                       tr_calls[id] + Occurrences(st.invoked, id)]
    /\ tr_invoked' = st.invoked
    /\ tr_ret' = st.ids
    /\ tr_op' = op
    /\ UNCHANGED <<tr_order, tr_floor_triggers>>

NoFloor == 0

\* TriggerManager.__init__
TriggerInit ==
    /\ tr_triggers = [id \in {} |-> 0]
    /\ tr_order = <<>>
    /\ tr_floor_triggers = [floor \in {} |-> <<>>]
    /\ tr_calls = [id \in {} |-> 0]
    /\ tr_dwell = [id \in {} |-> 0]
    /\ tr_invoked = <<>>
    /\ tr_op = [name |-> "__init__", dt |-> 0, pos |-> NoPos, floor |-> NoFloor]
    /\ tr_ret = <<>>

\* TriggerManager.add_trigger, for a trigger whose id is not registered yet
add_trigger(trigger, floor) ==
    /\ trigger.id \notin DOMAIN tr_triggers
    /\ Cardinality(DOMAIN tr_triggers) < MaxTriggers
    /\ tr_triggers' = [id \in DOMAIN tr_triggers \cup {trigger.id} |->
                          IF id = trigger.id THEN trigger ELSE tr_triggers[id]]
    /\ tr_order' = Append(tr_order, trigger.id)
    /\ tr_floor_triggers' =
          IF floor = NoFloor THEN tr_floor_triggers
          ELSE [f \in DOMAIN tr_floor_triggers \cup {floor} |->
                   IF f = floor THEN Append(FloorTriggersGet(floor), trigger.id)
                   ELSE tr_floor_triggers[f]]
    /\ tr_calls' = [id \in DOMAIN tr_calls \cup {trigger.id} |->
                       IF id = trigger.id THEN 0 ELSE tr_calls[id]]
    /\ tr_dwell' = [id \in DOMAIN tr_dwell \cup {trigger.id} |->
                       IF id = trigger.id THEN 0 ELSE tr_dwell[id]]
    /\ tr_invoked' = <<>>
    /\ tr_ret' = <<>>
    /\ tr_op' = [name |-> "add_trigger", dt |-> 0, pos |-> NoPos, floor |-> floor]

\* TriggerManager.update
trigger_update(dt, player_pos, floor, current_time_str, completed) ==
    LET globals == UpdateLoop(Pass(tr_triggers, <<>>, <<>>), tr_order,
                              dt, player_pos, current_time_str, completed)
        st == UpdateLoop(globals, FloorTriggersGet(floor),
                         dt, player_pos, current_time_str, completed)
    IN  TriggerCallDone(st, [name |-> "update", dt |-> dt, pos |-> player_pos,
                             floor |-> floor])

\* TriggerManager.trigger_interaction_near
trigger_interaction_near(player_pos, floor, radius) ==
    LET st == InteractLoop(Pass(tr_triggers, <<>>, <<>>),
                           tr_order \o FloorTriggersGet(floor), player_pos, radius)
    IN  TriggerCallDone(st, [name |-> "trigger_interaction_near", dt |-> 0,
                             pos |-> player_pos, floor |-> floor])

TriggerAdd ==
    /\ \E trigger \in TriggerCatalog, floor \in RegistrationFloors \cup {NoFloor} :
          add_trigger(trigger, floor)
    /\ UNCHANGED nonTriggerVars

TriggerUpdate ==
    /\ \E dt \in TriggerDts, player_pos \in PlayerPositions,
          floor \in TriggerFloors, current_time_str \in TriggerTimes,
          completed \in CompletedSets :
          trigger_update(dt, player_pos, floor, current_time_str, completed)
    /\ UNCHANGED nonTriggerVars

TriggerInteractionNear ==
    /\ \E player_pos \in InteractPositions, floor \in TriggerFloors,
          radius \in InteractRadii :
          trigger_interaction_near(player_pos, floor, radius)
    /\ UNCHANGED nonTriggerVars

(***************************************************************************)
(*                            Specifications                               *)
(***************************************************************************)

Init ==
    /\ TaskInit
    /\ ClockInit
    /\ TimelineInit
    /\ ElevatorInit
    /\ EventBusInit
    /\ TriggerInit

TaskNextNoReset ==
    \/ AddTask
    \/ CompleteTask
    \/ CompleteUnassigned
    \/ OfferTask
    \/ DiscoverTask

TaskNext ==
    \/ AddTask
    \/ CompleteTask
    \/ CompleteUnassigned
    \/ OfferTask
    \/ DiscoverTask
    \/ ResetTasks

TaskOnceNext ==
    \/ AddTaskOnce
    \/ CompleteTask
    \/ CompleteUnassigned
    \/ OfferTask
    \/ DiscoverTask

\* The TaskManager under all its operations
SpecTasks == Init /\ [][TaskNext]_vars

\* The TaskManager without reset()
SpecTasksNoReset == Init /\ [][TaskNextNoReset]_vars

\* The TaskManager without reset(), each id registered at most once
SpecTasksOnce == Init /\ [][TaskOnceNext]_vars

TaskOnceResetNext ==
    \/ AddTaskOnce
    \/ CompleteTask
    \/ CompleteUnassigned
    \/ OfferTask
    \/ DiscoverTask
    \/ ResetTasks

\* The TaskManager under all its operations, each id registered at most once
SpecTasksOnceReset == Init /\ [][TaskOnceResetNext]_vars

TaskTypeOK ==
    /\ DOMAIN tasks \subseteq TaskIds
    /\ DOMAIN task_status = DOMAIN tasks
    /\ \A i \in DOMAIN tasks : task_status[i] \in {LOCKED, AVAILABLE, COMPLETED}
    /\ completed_tasks \subseteq DOMAIN tasks


ClockNext ==
    \/ ClockNew
    \/ ClockStart
    \/ ClockStop
    \/ ClockReset
    \/ ClockTick

ClockTicksNext ==
    \/ ClockNew
    \/ ClockStartFresh
    \/ ClockTick

\* The GameClock under start, stop, reset and tick
SpecClock == Init /\ [][ClockNext]_vars

\* A GameClock started once, right after its construction, and then only
\* ticked
SpecClockTicks == Init /\ [][ClockTicksNext]_vars

TimelineNext ==
    \/ TimelineLoad
    \/ TimelineUpdate
    \/ TimelineOnTimeReached
    \/ TimelineLoop
    \/ TimelineFireEmitNs
    \/ TimelineFireReturn

\* The TimelineController polled and notified in any interleaving
SpecTimeline == Init /\ [][TimelineNext]_vars

SessionNext ==
    \/ TimelineLoad
    \/ ClockStart
    \/ SessionFrame
    \/ TimelineLoop
    \/ TimelineFireEmitNs
    \/ TimelineFireReturn

\* The clock and the timeline driven by the host loop: the timeline is
\* loaded before the first frame, every frame ticks the clock and then polls
\* the timeline
SpecSession == Init /\ [][SessionNext]_vars

ElevatorNext ==
    \/ ElevatorCall
    \/ ElevatorGoTo
    \/ ElevatorForceClose
    \/ ElevatorClearQueue
    \/ ElevatorUpdate

ElevatorLiveNext ==
    \/ ElevatorCommand
    \/ ElevatorUpdate
    \/ ElevatorQuiet

ElevatorScenarioNext ==
    \/ ElevatorScenarioCall
    \/ ElevatorUpdate

ElevatorHallNext ==
    \/ ElevatorHallCall
    \/ ElevatorUpdate

\* The Elevator under hall calls and update() only
SpecElevatorHall == Init /\ [][ElevatorHallNext]_vars

\* The Elevator under all its operations
SpecElevator == Init /\ [][ElevatorNext]_vars

\* The Elevator receiving commands until the host goes quiet, with update()
\* called again and again by the frame loop
SpecElevatorLive == Init /\ [][ElevatorLiveNext]_vars /\ WF_vars(ElevatorUpdate)

\* Scenario C: a fresh elevator, one call to MIN_FLOOR + 2, then updates
SpecElevatorScenario == Init /\ [][ElevatorScenarioNext]_vars

EventBusNext ==
    \/ EventBusSubscribe
    \/ EventBusEmit
    \/ EventBusLoop
    \/ EventBusReturn

\* The EventBus: the host subscribes and publishes, handlers subscribe and
\* publish from inside a dispatch
SpecEventBus == Init /\ [][EventBusNext]_vars

TriggerNext ==
    \/ TriggerAdd
    \/ TriggerUpdate
    \/ TriggerInteractionNear

\* The TriggerManager polled and asked for interactions, without reset
SpecTriggers == Init /\ [][TriggerNext]_vars

ElevatorTypeOK ==
    /\ _is_valid_floor(current_floor)
    /\ _is_valid_floor(target_floor)
    /\ el_state \in {IDLE, MOVING_UP, MOVING_DOWN, OPENING_DOORS, CLOSING_DOORS, DOORS_OPEN}
    /\ animation_time \in 0..AnimationCap
    /\ total_uses \in 0..MaxUses

ClockTypeOK ==
    /\ current_time \in Nat
    /\ is_running \in BOOLEAN
    /\ total_real_seconds \in Nat

(***************************************************************************)
(*                        Properties: TaskManager                          *)
(***************************************************************************)

\* C1: once get_task_status(t) is COMPLETED it is COMPLETED in every later
\* state, and every later complete_task(t) returns False (add_task with or
\* without re-adding, offer_task, discover_task, complete_task and
\* complete_task_unassigned_if_match; no reset).
C1_CompletedIsTerminal ==
    [][\A t \in DOMAIN task_status :
          task_status[t] = COMPLETED =>
             /\ task_status'[t] = COMPLETED
             /\ (t_op' = [name |-> "complete_task", arg |-> t] => t_ret' = FALSE)]_vars

C8_Dependent(t) ==
    /\ t \in DOMAIN tasks
    /\ tasks[t].required
    /\ tasks[t].dependencies # {}

\* The step is the complete_task(d) call that completes the last
\* outstanding dependency of t
C8_CompletesLastDependency(t, d) ==
    /\ C8_Dependent(t)
    /\ t \in DOMAIN tasks'
    /\ tasks'[t] = tasks[t]
    /\ d \in tasks[t].dependencies
    /\ d \notin completed_tasks
    /\ completed_tasks' = completed_tasks \cup {d}
    /\ tasks[t].dependencies \subseteq completed_tasks'
    /\ t_op' = [name |-> "complete_task", arg |-> d]

\* C8 as stated: a required task with dependencies is LOCKED while one of
\* them is not completed; the complete_task call that completes the last one
\* returns True and leaves the dependent task AVAILABLE.
C8_DependencyUnlock_Original ==
    /\ [](\A t \in DOMAIN tasks :
            (C8_Dependent(t) /\ ~(tasks[t].dependencies \subseteq completed_tasks))
               => task_status[t] = LOCKED)
    /\ [][\A t \in DOMAIN tasks : \A d \in CallIds :
            C8_CompletesLastDependency(t, d)
               => (t_ret' = TRUE /\ task_status'[t] = AVAILABLE)]_vars

\* C8 amended: the same for a dependent task that is not itself COMPLETED
\* (complete_task accepts a LOCKED task).
C8_DependencyUnlock ==
    /\ [](\A t \in DOMAIN tasks :
            (/\ C8_Dependent(t)
             /\ ~(tasks[t].dependencies \subseteq completed_tasks)
             /\ task_status[t] # COMPLETED)
               => task_status[t] = LOCKED)
    /\ [][\A t \in DOMAIN tasks : \A d \in CallIds :
            (C8_CompletesLastDependency(t, d) /\ task_status'[t] # COMPLETED)
               => (t_ret' = TRUE /\ task_status'[t] = AVAILABLE)]_vars

\* C8 witness: complete_task("M1") has just returned True and the required
\* task M2, which depends on M1, is AVAILABLE.
C8_Witness ==
    /\ t_op = [name |-> "complete_task", arg |-> "M1"]
    /\ t_ret = TRUE
    /\ C8_Dependent("M2")
    /\ "M1" \in tasks["M2"].dependencies
    /\ task_status["M2"] = AVAILABLE

\* The tasks complete_task_unassigned_if_match(x) may complete
C9_Candidates(x) ==
    {t \in DOMAIN tasks : /\ tasks[t].interactable_id = x
                          /\ t \notin completed_tasks
                          /\ tasks[t].allow_unassigned_completion}

\* C9: complete_task_unassigned_if_match(x), when a task with
\* interactable_id x exists that is not completed and allows unassigned
\* completion, moves that task to COMPLETED, adds it to silent_completions,
\* awards its points and counter increment once, re-evaluates dependants and
\* returns None.
C9_SilentCompletion ==
    [][\A x \in Interactables :
          (/\ t_op' = [name |-> "complete_task_unassigned_if_match", arg |-> x]
           /\ C9_Candidates(x) # {})
          => \E t \in C9_Candidates(x) :
                /\ task_status'[t] = COMPLETED
                /\ completed_tasks' = completed_tasks \cup {t}
                /\ t \in silent_completions'
                /\ total_points' = total_points + tasks[t].reward_points
                /\ main_tasks_completed' + side_tasks_completed'
                      = main_tasks_completed + side_tasks_completed + 1
                /\ \A u \in DOMAIN tasks :
                      (/\ task_status[u] = LOCKED
                       /\ u # t
                       /\ tasks[u].dependencies \subseteq completed_tasks'
                       /\ (tasks[u].required \/ u \in offered_tasks))
                      => task_status'[u] = AVAILABLE
                /\ t_ret' = NoneVal]_vars

\* The unlock rule: all dependencies completed, and required, offered or
\* tagged 'auto'
C11_Eligible(t) ==
    /\ tasks[t].dependencies \subseteq completed_tasks
    /\ \/ tasks[t].required
       \/ t \in offered_tasks
       \/ "auto" \in tasks[t].tags

\* C11: when complete_task, complete_task_unassigned_if_match or offer_task
\* has returned, no task that satisfies the unlock rule (dependencies
\* completed, and required, offered or tagged 'auto') is LOCKED.
C11_NoEligibleLocked ==
    t_op.name \in {"complete_task", "complete_task_unassigned_if_match", "offer_task"}
       => \A t \in DOMAIN tasks : task_status[t] = LOCKED => ~C11_Eligible(t)

\* C12: with each id added once and no reset, a task that is AVAILABLE is
\* AVAILABLE or COMPLETED after every call, never LOCKED again.
C12_NeverDemoted ==
    [][\A t \in DOMAIN tasks :
          task_status[t] = AVAILABLE => task_status'[t] \in {AVAILABLE, COMPLETED}]_vars

\* C13: complete_task(id) with an unknown or already completed id returns
\* False and changes no status, no set, no points and no counter.
C13_RejectedCompletion ==
    [][\A id \in CallIds :
          (/\ t_op' = [name |-> "complete_task", arg |-> id]
           /\ (id \notin DOMAIN tasks \/ id \in completed_tasks))
          => /\ t_ret' = FALSE
             /\ UNCHANGED <<tasks, task_status, completed_tasks, available_tasks,
                            offered_tasks, discovered_tasks, silent_completions,
                            total_points, main_tasks_completed,
                            side_tasks_completed>>]_vars

\* C13 witness: complete_task was called a second time on a completed task
\* that had earned points, and returned False.
C13_Witness ==
    /\ t_op.name = "complete_task"
    /\ t_op.arg \in completed_tasks
    /\ t_ret = FALSE
    /\ total_points > 0

\* The sum of reward_points over a set of registered ids
RECURSIVE C14_Points(_)
C14_Points(ids) ==
    IF ids = {} THEN 0
    ELSE LET t == CHOOSE u \in ids : TRUE
         IN tasks[t].reward_points + C14_Points(ids \ {t})

\* C14: with each id added once and no reset, total_points is the sum of
\* reward_points over completed_tasks, main_tasks_completed the number of
\* required tasks in it and side_tasks_completed the number of the others.
C14_Accounting ==
    /\ total_points = C14_Points(completed_tasks)
    /\ main_tasks_completed = Cardinality({t \in completed_tasks : tasks[t].required})
    /\ side_tasks_completed = Cardinality({t \in completed_tasks : ~tasks[t].required})

\* C14 witness: a required task and a side task are completed, one of them
\* silently and one explicitly.
C14_Witness ==
    /\ main_tasks_completed = 1
    /\ side_tasks_completed = 1
    /\ silent_completions # {}
    /\ completed_tasks \ silent_completions # {}

\* C15: complete_task_unassigned_if_match(x) returns None; it completes one
\* of the tasks with interactable_id x that are not completed and allow
\* unassigned completion whenever there is one, wherever it stands in the
\* registration order, and changes nothing when there is none.
C15_AnyEligibleMatch ==
    [][\A x \in Interactables :
          t_op' = [name |-> "complete_task_unassigned_if_match", arg |-> x]
          => /\ t_ret' = NoneVal
             /\ IF C9_Candidates(x) = {}
                THEN UNCHANGED <<tasks, task_status, completed_tasks,
                                 available_tasks, offered_tasks, discovered_tasks,
                                 silent_completions, total_points,
                                 main_tasks_completed, side_tasks_completed>>
                ELSE \E t \in C9_Candidates(x) :
                        /\ completed_tasks' = completed_tasks \cup {t}
                        /\ task_status'[t] = COMPLETED]_vars

\* C16: offer_task(id) returns False and changes nothing for an unknown id;
\* otherwise it returns True and id is in offered_tasks, a non-required
\* LOCKED task is then AVAILABLE if its dependencies are all completed and
\* LOCKED if not; offers stay recorded until reset; and the call that
\* completes the last dependency of an offered, non-required, LOCKED task
\* leaves it AVAILABLE.
C16_Offer ==
    [][/\ \A id \in CallIds :
             t_op' = [name |-> "offer_task", arg |-> id]
             => IF id \notin DOMAIN tasks
                THEN /\ t_ret' = FALSE
                     /\ UNCHANGED <<tasks, task_status, completed_tasks,
                                    available_tasks, offered_tasks, discovered_tasks,
                                    silent_completions, total_points,
                                    main_tasks_completed, side_tasks_completed>>
                ELSE /\ t_ret' = TRUE
                     /\ id \in offered_tasks'
                     /\ (~tasks[id].required /\ task_status[id] = LOCKED)
                        => task_status'[id] =
                              IF tasks[id].dependencies \subseteq completed_tasks
                              THEN AVAILABLE ELSE LOCKED
       /\ t_op'.name # "reset" => offered_tasks \subseteq offered_tasks'
       /\ \A t \in DOMAIN tasks :
             (/\ t \in offered_tasks
              /\ ~tasks[t].required
              /\ task_status[t] = LOCKED
              /\ ~(tasks[t].dependencies \subseteq completed_tasks)
              /\ tasks[t].dependencies \subseteq completed_tasks'
              /\ t_op'.name \in {"complete_task", "complete_task_unassigned_if_match"})
             => task_status'[t] = AVAILABLE]_vars

\* C16 witness: S1, a side task without the 'auto' tag that depends on M1,
\* was offered while LOCKED; complete_task("M1") has just returned True and
\* S1 is AVAILABLE.
C16_Witness ==
    /\ t_op = [name |-> "complete_task", arg |-> "M1"]
    /\ t_ret = TRUE
    /\ "S1" \in DOMAIN tasks
    /\ "S1" \in offered_tasks
    /\ ~tasks["S1"].required
    /\ tasks["S1"].dependencies = {"M1"}
    /\ tasks["S1"].tags = {}
    /\ task_status["S1"] = AVAILABLE

C18_AfterReset ==
    t_op.name = "reset"
       => /\ total_points = 0
          /\ main_tasks_completed = 0
          /\ side_tasks_completed = 0
          /\ completed_tasks = {}
          /\ \A t \in DOMAIN tasks :
                tasks[t].dependencies = {} => task_status[t] = AVAILABLE

(***************************************************************************)
(*                         Properties: GameClock                           *)
(***************************************************************************)

\* C4: over start, stop, reset and tick(dt) with dt >= 0,
\* start_time <= current_time <= end_time in every state, and current_time
\* never decreases across a tick.
C4_ClockWithinBounds ==
    /\ [](start_time <= current_time /\ current_time <= end_time)
    /\ [][c_op'.name = "tick" => current_time' >= current_time]_vars

\* C4 witness: a tick overshot end_time and was clamped to it.
C4_Witness ==
    /\ c_op.name = "tick"
    /\ current_time = end_time
    /\ start_time + total_real_seconds * speed > end_time

\* C5: a tick that brings current_time to end_time, by overshooting or by
\* landing exactly on it, leaves is_running False; with ticks alone,
\* current_time = end_time implies ~is_running, and from then on
\* is_deadline() stays True and ticks change nothing.
C5_StoppedAtDeadline ==
    /\ [](current_time = end_time => is_running = FALSE)
    /\ [][current_time = end_time =>
            /\ current_time' >= end_time'
            /\ UNCHANGED <<current_time, is_running, total_real_seconds,
                           last_minute_emitted>>]_vars

\* The clock as constructed (nothing ticked, nothing emitted) and started
C10_FreshStarted ==
    /\ current_time = start_time
    /\ total_real_seconds = 0
    /\ last_minute_emitted = NoTime
    /\ is_running

\* The TIME_TICK events among a sequence of events
C10_TimeTicks(log) == {i \in 1..Len(log) : log[i].topic.name = "TIME_TICK"}

\* C10: with start 08:30, end 08:48, speed 60 and the clock started, one
\* tick(1.0) on a fresh clock leaves get_time_str() = "08:31" and publishes
\* exactly one TIME_TICK, with payload time "08:31".
C10_ScenarioA ==
    [][(/\ C10_FreshStarted
        /\ speed = 60
        /\ strftime_HM(start_time) = <<"0", "8", ":", "3", "0">>
        /\ strftime_HM(end_time) = <<"0", "8", ":", "4", "8">>
        /\ c_op'.name = "tick"
        /\ c_op'.arg = 1 * HalfSecondsPerSecond)
       => /\ get_time_str' = <<"0", "8", ":", "3", "1">>
          /\ Cardinality(C10_TimeTicks(bus_log')) = 1
          /\ \A i \in C10_TimeTicks(bus_log') :
                bus_log'[i].payload.time = <<"0", "8", ":", "3", "1">>]_vars

\* C10 witness: the state right after that tick.
C10_Witness ==
    /\ c_op.name = "tick"
    /\ c_op.arg = 1 * HalfSecondsPerSecond
    /\ speed = 60
    /\ total_real_seconds = 1 * HalfSecondsPerSecond
    /\ current_time = start_time + 60 * HalfSecondsPerSecond
    /\ Len(bus_log) = 3

\* C19: over start, stop, reset and tick, a tick never publishes TIME_TICK
\* or TIME_REACHED for a minute this clock has published before, and what a
\* tick publishes is nothing or the triple TIME_TICK, TIME_REACHED,
\* TIME_REACHED:<HH:MM> in that order with one time payload.
C19_OncePerMinute ==
    [][c_op'.name = "tick" =>
          /\ \A i \in 1..Len(bus_log') :
                bus_log'[i].topic.name \in {"TIME_TICK", "TIME_REACHED"}
                   => bus_log'[i].payload.time \notin minutes_published
          /\ bus_log' # <<>> =>
                LET minute_str == bus_log'[1].payload.time
                IN bus_log' = << Event("TIME_TICK", <<>>, minute_str),
                                 Event("TIME_REACHED", <<>>, minute_str),
                                 Event("TIME_REACHED:", minute_str, minute_str) >>]_vars

(***************************************************************************)
(*                     Properties: TimelineController                      *)
(***************************************************************************)

\* C3: over any interleaving of update polls and TIME_REACHED deliveries,
\* re-entrant ones included, every entry's emit topic and TIMELINE:<emit>
\* topic are published at most once, and fired goes from false to true once
\* and never back.
C3_FiresOnce ==
    /\ [](\A i \in 1..Len(tl_events) :
            /\ tl_emit_count[i] = (IF tl_events[i].fired THEN 1 ELSE 0)
            /\ tl_ns_count[i] <= tl_emit_count[i])
    /\ [][\A i \in 1..Len(tl_events) :
            tl_events[i].fired =>
               (Len(tl_events') = Len(tl_events) /\ tl_events'[i].fired)]_vars

\* C3 witness: while a fired entry's emit topic is being published, a nested
\* poll or TIME_REACHED for the same minute has already passed that entry.
C3_Witness ==
    /\ Len(tl_stack) = 2
    /\ tl_stack[1].pc = "emit"
    /\ tl_events[tl_stack[1].idx].fired
    /\ tl_stack[2].time_str = tl_events[tl_stack[1].idx].at
    /\ tl_stack[2].idx > tl_stack[1].idx
    /\ tl_emit_count[tl_stack[1].idx] = 1

\* C20: when the clock has been ticked to the deadline, with update(clock)
\* polled after every tick, every timeline entry whose 'at' lies within
\* [start_time, end_time] has fired.
C20_DueEntriesFired ==
    (is_deadline /\ tl_subscribed /\ tl_stack = <<>>)
       => \A i \in 1..Len(tl_events) :
             (/\ start_time <= _parse_time(tl_events[i].at)
              /\ _parse_time(tl_events[i].at) <= end_time)
             => tl_events[i].fired

(***************************************************************************)
(*                          Properties: Elevator                           *)
(***************************************************************************)

Resting == el_state \in {IDLE, DOORS_OPEN}

\* C6: from every reachable state with an empty call_queue, update(dt)
\* calls alone (dt > 0) reach IDLE or DOORS_OPEN after finitely many calls
\* and then stay there.
C6_ReachesRest ==
    [] ((el_quiet /\ call_queue = <<>>) => <>[] Resting)

\* C6 witness: with only update() being called, an update has just finished
\* a door animation and left the elevator at rest.
C6_Witness ==
    /\ el_quiet
    /\ call_queue = <<>>
    /\ e_op.name = "update"
    /\ el_callbacks # <<>>
    /\ Resting

\* Scenario C: epsilon, in seconds
Epsilon == 1

ScenarioTravel == 2 * floor_travel_time

C23_EveryCallServed ==
    \A f \in ValidFloors :
        []((/\ el_quiet
            /\ \/ InQueue(f, call_queue)
               \/ el_state \in {MOVING_UP, MOVING_DOWN} /\ target_floor = f)
           => <>(current_floor = f /\ el_state \in {OPENING_DOORS, DOORS_OPEN}))

\* C24: right after a valid go_to(f), whatever the state it was issued in,
\* call_queue holds no floor other than f and total_uses has grown by 1; if
\* the doors were open the elevator is CLOSING_DOORS, and if it was IDLE it
\* is moving toward f, or OPENING_DOORS when f is the current floor.
C24_GoToPreempts ==
    [][\A f \in ValidFloors :
          (e_op' = [name |-> "go_to", arg |-> f] /\ e_ret' = TRUE)
          => /\ \A i \in 1..Len(call_queue') : call_queue'[i] = f
             /\ total_uses' = total_uses + 1
             /\ el_state = DOORS_OPEN => el_state' = CLOSING_DOORS
             /\ el_state = IDLE =>
                   IF f = current_floor
                   THEN el_state' = OPENING_DOORS
                   ELSE /\ target_floor' = f
                        /\ el_state' = IF f > current_floor
                                       THEN MOVING_UP ELSE MOVING_DOWN]_vars

\* C24 witness: go_to(f) was issued while the cabin was travelling to
\* another floor; call_queue holds f alone.
C24_Witness ==
    /\ e_op.name = "go_to"
    /\ e_ret = TRUE
    /\ total_uses = 1
    /\ el_state \in {MOVING_UP, MOVING_DOWN}
    /\ target_floor # e_op.arg
    /\ call_queue = <<e_op.arg>>

\* C25: call_queue never holds a floor twice, and call(f) while f is queued
\* leaves call_queue unchanged and returns True.
C25_NoDuplicateCalls ==
    /\ [](\A i, j \in 1..Len(call_queue) : call_queue[i] = call_queue[j] => i = j)
    /\ [][\A f \in ValidFloors :
             (/\ e_op' = [name |-> "call", arg |-> f]
              /\ \E i \in 1..Len(call_queue) : call_queue[i] = f)
             => (call_queue' = call_queue /\ e_ret' = TRUE)]_vars

\* C25 witness: call(f) has just returned True for the floor at the head of
\* a queue of two, that is for a floor queued before the other one.
C25_Witness ==
    /\ e_op.name = "call"
    /\ e_ret = TRUE
    /\ Len(call_queue) = 2
    /\ call_queue[1] = e_op.arg

\* A call(g) made during a trip, for a floor that is neither the current
\* one, nor the target, nor queued
C26_FurtherCall(g) ==
    /\ el_state \in {MOVING_UP, MOVING_DOWN}
    /\ e_op' = [name |-> "call", arg |-> g]
    /\ g # current_floor
    /\ g # target_floor
    /\ \A i \in 1..Len(call_queue) : call_queue[i] # g

C27_WentFromIdle(f) ==
    /\ e_op = [name |-> "go_to", arg |-> f]
    /\ e_ret = TRUE
    /\ el_state \in {MOVING_UP, MOVING_DOWN}
    /\ target_floor = f
    /\ call_queue = <<>>
    /\ animation_time = 0

\* The travel time from the current floor to floor f
C27_TravelTime(f) ==
    (IF f > current_floor THEN f - current_floor ELSE current_floor - f)
       * floor_travel_time

C28_InvalidFloorRefused ==
    [][\A f \in FloorArgs : \A op \in {"call", "go_to"} :
          (/\ e_op' = [name |-> op, arg |-> f]
           /\ (f < MIN_FLOOR \/ f > MAX_FLOOR))
          => /\ e_ret' = FALSE
             /\ UNCHANGED <<el_state, current_floor, target_floor, call_queue,
                            total_uses, floors_visited, animation_time>>]_vars

\* C28 witness: a call or go_to for a floor outside the building has just
\* returned False while the cabin was travelling with a call pending.
C28_Witness ==
    /\ e_op.name \in {"call", "go_to"}
    /\ (e_op.arg < MIN_FLOOR \/ e_op.arg > MAX_FLOOR)
    /\ e_ret = FALSE
    /\ el_state \in {MOVING_UP, MOVING_DOWN}
    /\ call_queue # <<>>

\* C29: MOVING_UP implies MIN_FLOOR <= current_floor < target_floor <=
\* MAX_FLOOR, MOVING_DOWN implies MIN_FLOOR <= target_floor < current_floor
\* <= MAX_FLOOR, in IDLE and DOORS_OPEN target_floor = current_floor; and no
\* operation decreases total_uses or removes a floor from floors_visited.
C29_MotionInvariant ==
    /\ [](/\ el_state = MOVING_UP =>
                (/\ MIN_FLOOR <= current_floor
                 /\ current_floor < target_floor
                 /\ target_floor <= MAX_FLOOR)
          /\ el_state = MOVING_DOWN =>
                (/\ MIN_FLOOR <= target_floor
                 /\ target_floor < current_floor
                 /\ current_floor <= MAX_FLOOR)
          /\ el_state \in {IDLE, DOORS_OPEN} => target_floor = current_floor)
    /\ [][/\ total_uses' >= total_uses
          /\ floors_visited \subseteq floors_visited']_vars

\* C29 witness: the cabin is on its way down from a floor it went up to,
\* after a go_to.
C29_Witness ==
    /\ el_state = MOVING_DOWN
    /\ current_floor \in floors_visited
    /\ total_uses = 1

\* C21: an emit call that returned has invoked the handlers subscribed to
\* its topic, each subscription once and in subscription order, before it
\* returned: the handlers it invoked are the topic's handler list, which
\* starts with the list as it was when emit was called. A handler that
\* raised did not stop the following ones and nothing was raised to the
\* publisher. On a topic without subscribers nothing is invoked.
C21_EmitInvokesAll ==
    \A k \in DOMAIN eb_ret :
        LET r == eb_ret[k]
        IN  /\ ~r.raised
            /\ r.called = r.at_return
            /\ Len(r.at_call) <= Len(r.called)
            /\ SubSeq(r.called, 1, Len(r.at_call)) = r.at_call
            /\ (r.at_return = <<>> => r.called = <<>>)

\* C21 witness: an emit returned after it invoked a raising handler and then
\* the handler subscribed after it, while the other topic has a handler too
C21_Witness ==
    /\ eb_ret # <<>>
    /\ eb_ret[1].called = <<"on_raise", "on_ok">>
    /\ OtherTopic(eb_ret[1].topic) \in DOMAIN eb_subscribers

\* C22: a running emit call only invokes handlers of the list as it was when
\* emit was called: it never invokes more handlers than that list holds.
C22_SnapshotDispatch ==
    \A k \in DOMAIN eb_stack :
        Len(eb_stack[k].called) <= Len(eb_stack[k].at_call)

\* C30: the callback of a trigger with repeatable = False has been invoked
\* at most once, whatever update and trigger_interaction_near calls were
\* made, whether the trigger is registered globally or for a floor.
C30_FiresAtMostOnce ==
    \A id \in DOMAIN tr_triggers :
        ~tr_triggers[id].repeatable => tr_calls[id] <= 1

\* C31: a trigger registered for floor F is left alone by the update and
\* trigger_interaction_near calls made for another floor: such a call does
\* not invoke its callback and does not return its id.
C31_FloorScoped ==
    \A f \in DOMAIN tr_floor_triggers : \A k \in DOMAIN tr_floor_triggers[f] :
        LET id == tr_floor_triggers[f][k]
        IN  (tr_op.name \in {"update", "trigger_interaction_near"} /\ tr_op.floor # f)
               => /\ Occurrences(tr_invoked, id) = 0
                  /\ \A j \in DOMAIN tr_ret : tr_ret[j] # id

\* Whether the position pos lies in the zone of the trigger t
C32_Inside(t, pos) ==
    IF RectTruth(t.condition.zone_rect)
    THEN point_in_rect(pos, t.condition.zone_rect)
    ELSE /\ t.condition.center_pos # NoPos
         /\ t.condition.radius # 0
         /\ distance_within(pos, t.condition.center_pos, t.condition.radius)

\* C32: an active EXIT_ZONE trigger fires on the update that finds the player
\* outside its zone when the preceding update found the player inside it.
C32_ExitEdgeFires ==
    [][\A id \in DOMAIN tr_triggers :
          LET t == tr_triggers[id]
          IN  ( /\ t.condition.trigger_type = EXIT_ZONE
                /\ t.active
                /\ t.repeatable \/ ~t.triggered
                /\ tr_op.name = "update"
                /\ C32_Inside(t, tr_op.pos)
                /\ tr_op'.name = "update"
                /\ ~C32_Inside(t, tr_op'.pos) )
              => Occurrences(tr_invoked', id) >= 1]_vars

\* C33: a repeatable ENTER_ZONE trigger fires on every update that finds the
\* player inside its zone when the preceding update found the player outside
\* it, re-entries included.
C33_EveryEntryFires ==
    [][\A id \in DOMAIN tr_triggers :
          LET t == tr_triggers[id]
          IN  ( /\ t.condition.trigger_type = ENTER_ZONE
                /\ t.active
                /\ t.repeatable
                /\ tr_op.name = "update"
                /\ ~C32_Inside(t, tr_op.pos)
                /\ tr_op'.name = "update"
                /\ C32_Inside(t, tr_op'.pos) )
              => Occurrences(tr_invoked', id) >= 1]_vars

\* C34: a STAY_IN_ZONE trigger only fires in an update when the dt of the
\* updates in a row that found the player in its zone, this one included,
\* has reached stay_duration.
C34_FiresOnlyAfterDwell ==
    \A id \in DOMAIN tr_triggers :
        ( /\ tr_triggers[id].condition.trigger_type = STAY_IN_ZONE
          /\ tr_op.name = "update"
          /\ Occurrences(tr_invoked, id) >= 1 )
        => tr_dwell[id] >= tr_triggers[id].condition.stay_duration

\* C37: one TriggerManager.update call evaluates every trigger at most once:
\* it invokes each callback at most once, and the time_in_zone of a
\* STAY_IN_ZONE trigger it evaluates with the player inside grows by dt.
C37_EvaluatedOncePerUpdate ==
    [][tr_op'.name = "update" =>
          \A id \in DOMAIN tr_triggers :
              LET t == tr_triggers[id]
              IN  /\ Occurrences(tr_invoked', id) <= 1
                  /\ ( /\ t.condition.trigger_type = STAY_IN_ZONE
                       /\ t.active
                       /\ t.repeatable \/ ~t.triggered
                       /\ InZone(t, tr_op'.pos) )
                     => tr_triggers'[id].time_in_zone = t.time_in_zone + tr_op'.dt]_vars

\* The status add_task gives the task in a TaskManager with nothing
\* completed and nothing offered
C35_FreshStatus(task) ==
    IF /\ _are_dependencies_met(task, {})
       /\ (task.required \/ "auto" \in task.tags)
    THEN AVAILABLE ELSE LOCKED

\* C35: when reset() has returned, every task has the status add_task gives
\* its definition in a fresh TaskManager, tasks tagged 'auto' included, and
\* the offered, discovered and silent sets are empty.
C35_ResetFromScratch ==
    t_op.name = "reset"
       => /\ \A i \in DOMAIN tasks : task_status[i] = C35_FreshStatus(tasks[i])
          /\ offered_tasks = {}
          /\ discovered_tasks = {}
          /\ silent_completions = {}

C39_IndexesAgree ==
    /\ available_tasks = {i \in DOMAIN task_status : task_status[i] = AVAILABLE}
    /\ completed_tasks = {i \in DOMAIN task_status : task_status[i] = COMPLETED}
    /\ silent_completions \subseteq completed_tasks
    /\ \A i \in DOMAIN task_status : task_status[i] # IN_PROGRESS

\* C39 witness: after a silent completion one task is completed silently,
\* another one is registered and LOCKED, and no task is AVAILABLE.
C39_Witness ==
    /\ t_op.name = "complete_task_unassigned_if_match"
    /\ silent_completions # {}
    /\ available_tasks = {}
    /\ \E i \in DOMAIN task_status : task_status[i] = LOCKED
    /\ Cardinality(DOMAIN tasks) >= 2

\* C36: the stop at a floor serves every call made for it before the arrival:
\* when an update brings the moving elevator to a floor and starts opening
\* the doors there, no call for that floor is left in call_queue, so the
\* doors are not opened there a second time.
C36_SingleStop ==
    [][( /\ el_state \in {MOVING_UP, MOVING_DOWN}
         /\ e_op'.name = "update"
         /\ el_state' = OPENING_DOORS )
       => ~InQueue(current_floor', call_queue')]_vars

\* C40: whenever an operation of the elevator has returned with state IDLE,
\* call_queue is empty.
C40_IdleQueueEmpty ==
    el_state = IDLE => call_queue = <<>>

\* C40 witness: the doors have just closed on an elevator that has served a
\* trip, and it is IDLE.
C40_Witness ==
    /\ el_state = IDLE
    /\ e_op.name = "update"
    /\ el_callbacks # <<>>
    /\ el_callbacks[Len(el_callbacks)] = <<"on_doors_closed">>
    /\ floors_visited # {}
    /\ call_queue = <<>>

====
